---- MODULE Spec2Model ----
(***************************************************************************)
(* A model of the trading bot: bot/risk_manager.py (RiskManager),          *)
(* bot/portfolio.py (Portfolio), the live loop of bot/main.py (run_bot)    *)
(* and the simulation loop of bot/backtester.py (Backtester.run_backtest). *)
(*                                                                         *)
(* Numbers.  Python floats are modelled as exact rationals <<n, d>> in     *)
(* lowest terms with d > 0; rounding error of IEEE arithmetic is not       *)
(* modelled.  Python's None is the empty tuple <<>>.  An optional record   *)
(* (a file on disk, the backtest's position) is a sequence of length <= 1. *)
(* Time.  datetime.now() is modelled at the granularity the code compares  *)
(* it at: the calendar day, a natural number `today`.                      *)
(***************************************************************************)
EXTENDS Integers, Sequences, FiniteSets, TLC

(***************************************************************************)
(* Bounds of the model.                                                    *)
(***************************************************************************)
\* Days the clock can advance to (today ranges over 0..MaxDay).
MaxDay == 1
\* Longest trade history explored through Portfolio's methods.
MaxTrades == 2
\* Longest trade history explored in the live loop.
MaxLiveTrades == 1
\* record_trade_result is explored while daily_loss > -MaxDailyLoss.
MaxDailyLoss == 100
\* Bars simulated by the backtest after the warm-up bars.
MaxBars == 4
\* Bars simulated by each of two backtests run side by side.
MaxPairBars == 3
\* One-second steps of the wait between two passes of the live loop (3600 in
\* the code).
SleepDuration == 2

(***************************************************************************)
(* Configuration (config.example.py, read with getattr in the code).       *)
(***************************************************************************)
SYMBOL == "BTC/USDT"
STOP_LOSS_PERCENT == 2
TAKE_PROFIT_PERCENT == 5
POSITION_SIZE_PERCENT == 10
MAX_DAILY_LOSS_PERCENT == 5
\* The shipped value is 10; the limit is a configuration value and is set
\* low here so that runs reach it.
MAX_TRADES_PER_DAY == 2
\* add_position is explored until daily_trades passes the limit by one.
MaxDailyTrades == MAX_TRADES_PER_DAY + 1

(***************************************************************************)
(* Exact rational arithmetic standing for float arithmetic.                *)
(***************************************************************************)
Abs(x) == IF x < 0 THEN -x ELSE x

RECURSIVE GCD(_, _)
GCD(a, b) == IF b = 0 THEN a ELSE GCD(b, a % b)

\* The rational n/d (d # 0) in lowest terms with a positive denominator.
Rat(n, d) ==
    IF d = 1 THEN <<n, 1>>
    ELSE LET g == GCD(Abs(n), Abs(d))
             s == IF d < 0 THEN -1 ELSE 1
         IN  <<(s * n) \div g, (s * d) \div g>>

R(n) == <<n, 1>>
Zero == R(0)
RAdd(x, y) == Rat(x[1] * y[2] + y[1] * x[2], x[2] * y[2])
RSub(x, y) == Rat(x[1] * y[2] - y[1] * x[2], x[2] * y[2])
RMul(x, y) == Rat(x[1] * y[1], x[2] * y[2])
\* x / y, defined for y # 0 (Python raises ZeroDivisionError otherwise).
RDiv(x, y) == Rat(x[1] * y[2], x[2] * y[1])
RLt(x, y) == x[1] * y[2] < y[1] * x[2]
RLe(x, y) == x[1] * y[2] <= y[1] * x[2]
RGt(x, y) == RLt(y, x)
RGe(x, y) == RLe(y, x)
RMax(x, y) == IF RGt(y, x) THEN y ELSE x

\* The sum of a sequence of numbers, added from 0 in order.
RECURSIVE SeqSum(_)
SeqSum(seq) == IF seq = <<>> THEN Zero ELSE RAdd(Head(seq), SeqSum(Tail(seq)))

None == <<>>
\* Python truthiness of an optional number: None and 0 are falsy.
Truthy(x) == x # None /\ x # Zero

\* Python dicts: the empty dict, m[k] = v, and del m[k].
EmptyDict == [x \in {} |-> None]
DictSet(m, k, v) == [x \in DOMAIN m \cup {k} |-> IF x = k THEN v ELSE m[x]]
DictDel(m, k) == [x \in DOMAIN m \ {k} |-> m[x]]

(***************************************************************************)
(* State.                                                                  *)
(***************************************************************************)
VARIABLES
    today,          \* datetime.now().date()
    risk_manager,   \* the RiskManager instance (its attributes)
    rm_file,        \* data/risk_state.json: <<>> (absent) or <<state>>
    portfolio,      \* the Portfolio instance (trade_history, open_positions)
    th_file,        \* data/trade_history.json: <<>> (absent) or <<list>>
    disk,           \* what saving to the data directory does at present
    adds,           \* add_position calls on this RiskManager since its last
                    \* daily reset (history, for the daily trade limit)
    ret,            \* the last call: operation, arguments, outcome
    live,           \* run_bot: where the loop is, and shutdown_requested
    bt              \* the locals of Backtester.run_backtest

vars == <<today, risk_manager, rm_file, portfolio, th_file, disk, adds, ret,
          live, bt>>

(***************************************************************************)
(* Persistence outcomes.  _save_state and _save_trade_history call         *)
(* os.makedirs OUTSIDE their try block, so a failure there propagates to   *)
(* the caller; a failure of open() inside the try block is printed and     *)
(* swallowed, and leaves the file as it was.  Which of these a save meets  *)
(* is a condition of the data directory (`disk`): any of the three at the  *)
(* start, and the same for the whole run.                                  *)
(***************************************************************************)
SaveOutcomes == {"ok", "open_error", "mkdir_error"}

\* A data file whose write was cut short: open(file, 'w') has truncated it and
\* json.dump has not written the whole document, so the bytes on disk are a
\* proper prefix of a JSON document (none at all, possibly).  json.load raises
\* on such a file.  A complete file is a sequence of length 1.
Torn == <<None, None>>

(***************************************************************************)
(* RiskManager (bot/risk_manager.py).                                      *)
(* Every method is an operator from the instance (and the file) to the     *)
(* instance after the call, the file after the call, whether an exception  *)
(* left the method (raised), and the returned value.                       *)
(***************************************************************************)

\* date.isoformat() and datetime.fromisoformat(...).date(): the text of a
\* date, and the date of a text.
isoformat(d) == <<"iso", d>>
fromisoformat(s) == s[2]

\* A variant of the serialised dictionary that leaves the positions out.
StateToJson_no_positions(rm) ==
    [daily_loss      |-> rm.daily_loss,
     daily_trades    |-> rm.daily_trades,
     last_reset_date |-> isoformat(rm.last_reset_date),
     emergency_stop  |-> rm.emergency_stop,
     open_positions  |-> EmptyDict]

\* The dictionary _save_state serialises: initial_daily_balance is not in it.
\* json.dump writes numbers, booleans and strings so that json.load reads
\* the same values back; the keys of open_positions are strings.
StateToJson(rm) ==
    [daily_loss      |-> rm.daily_loss,
     daily_trades    |-> rm.daily_trades,
     last_reset_date |-> isoformat(rm.last_reset_date),
     emergency_stop  |-> rm.emergency_stop,
     open_positions  |-> rm.open_positions]

\* _save_state: [file, raised].
RM_save_state(rm, file, outcome) ==
    CASE outcome = "mkdir_error" -> [file |-> file, raised |-> TRUE]
      [] outcome = "open_error"  -> [file |-> file, raised |-> FALSE]
      [] OTHER                   -> [file |-> <<StateToJson(rm)>>, raised |-> FALSE]

\* __init__ up to the call of _load_state.
RM_defaults(now) ==
    [emergency_stop        |-> FALSE,
     daily_loss            |-> Zero,
     daily_trades          |-> 0,
     last_reset_date       |-> now,
     initial_daily_balance |-> None,
     open_positions        |-> EmptyDict]

\* _load_state applied to a fresh instance: a missing file is skipped, and a
\* file json.load cannot parse leaves the instance as __init__ set it.
RM_load_state(rm, file) ==
    IF Len(file) # 1 THEN rm
    ELSE [rm EXCEPT !.daily_loss      = file[1].daily_loss,
                    !.daily_trades    = file[1].daily_trades,
                    !.last_reset_date = fromisoformat(file[1].last_reset_date),
                    !.emergency_stop  = file[1].emergency_stop,
                    !.open_positions  = file[1].open_positions]

RM_init(now, file) == RM_load_state(RM_defaults(now), file)

\* A variant of the daily reset that also clears the emergency stop.
RM_reset_daily_limits_clears_stop(rm, now, file, outcome) ==
    IF now > rm.last_reset_date
    THEN LET rm2 == [rm EXCEPT !.daily_loss = Zero,
                               !.daily_trades = 0,
                               !.last_reset_date = now,
                               !.initial_daily_balance = None,
                               !.emergency_stop = FALSE]
             sv  == RM_save_state(rm2, file, outcome)
         IN  [rm |-> rm2, file |-> sv.file, raised |-> sv.raised]
    ELSE [rm |-> rm, file |-> file, raised |-> FALSE]

\* A variant of the daily reset that keeps the day's trade count.
RM_reset_daily_limits_keeps_trades(rm, now, file, outcome) ==
    IF now > rm.last_reset_date
    THEN LET rm2 == [rm EXCEPT !.daily_loss = Zero,
                               !.last_reset_date = now,
                               !.initial_daily_balance = None]
             sv  == RM_save_state(rm2, file, outcome)
         IN  [rm |-> rm2, file |-> sv.file, raised |-> sv.raised]
    ELSE [rm |-> rm, file |-> file, raised |-> FALSE]

\* reset_daily_limits: [rm, file, raised].
RM_reset_daily_limits(rm, now, file, outcome) ==
    IF now > rm.last_reset_date
    THEN LET rm2 == [rm EXCEPT !.daily_loss = Zero,
                               !.daily_trades = 0,
                               !.last_reset_date = now,
                               !.initial_daily_balance = None]
             sv  == RM_save_state(rm2, file, outcome)
         IN  [rm |-> rm2, file |-> sv.file, raised |-> sv.raised]
    ELSE [rm |-> rm, file |-> file, raised |-> FALSE]

\* set_emergency_stop: [rm, file, raised].
RM_set_emergency_stop(rm, enabled, file, outcome) ==
    LET rm2 == [rm EXCEPT !.emergency_stop = enabled]
        sv  == RM_save_state(rm2, file, outcome)
    IN  [rm |-> rm2, file |-> sv.file, raised |-> sv.raised]

\* A variant of the limit checks that does not look at emergency_stop.
RM_check_limits_no_stop(rm, current_balance) ==
    IF rm.daily_trades >= MAX_TRADES_PER_DAY
    THEN [rm |-> rm, ok |-> FALSE,
          reason |-> <<"Daily trade limit reached", MAX_TRADES_PER_DAY>>]
    ELSE [rm |-> rm, ok |-> TRUE, reason |-> <<"Trading allowed">>]

\* A variant of the limit checks that does not look at daily_trades.
RM_check_limits_no_trade_limit(rm, current_balance) ==
    IF rm.emergency_stop
    THEN [rm |-> rm, ok |-> FALSE, reason |-> <<"Emergency stop is active">>]
    ELSE [rm |-> rm, ok |-> TRUE, reason |-> <<"Trading allowed">>]

\* The limit checks of can_trade, after the daily reset: [rm, ok, reason].
RM_check_limits(rm, current_balance) ==
    IF rm.emergency_stop
    THEN [rm |-> rm, ok |-> FALSE, reason |-> <<"Emergency stop is active">>]
    ELSE IF rm.daily_trades >= MAX_TRADES_PER_DAY
    THEN [rm |-> rm, ok |-> FALSE,
          reason |-> <<"Daily trade limit reached", MAX_TRADES_PER_DAY>>]
    ELSE IF Truthy(current_balance) /\ Truthy(rm.initial_daily_balance)
    THEN LET daily_loss_percent ==
                 RMul(RDiv(RSub(rm.initial_daily_balance, current_balance),
                           rm.initial_daily_balance), R(100))
         IN  IF RGe(daily_loss_percent, R(MAX_DAILY_LOSS_PERCENT))
             THEN [rm |-> rm, ok |-> FALSE,
                   reason |-> <<"Daily loss limit reached">>]
             ELSE [rm |-> rm, ok |-> TRUE, reason |-> <<"Trading allowed">>]
    ELSE IF Truthy(current_balance) /\ ~Truthy(rm.initial_daily_balance)
    THEN [rm |-> [rm EXCEPT !.initial_daily_balance = current_balance],
          ok |-> TRUE, reason |-> <<"Trading allowed">>]
    ELSE [rm |-> rm, ok |-> TRUE, reason |-> <<"Trading allowed">>]

\* can_trade: [rm, file, raised, ok, reason].
RM_can_trade(rm, current_balance, now, file, outcome) ==
    LET rs == RM_reset_daily_limits(rm, now, file, outcome)
    IN  IF rs.raised
        THEN [rm |-> rs.rm, file |-> rs.file, raised |-> TRUE,
              ok |-> FALSE, reason |-> <<"exception">>]
        ELSE LET c == RM_check_limits(rs.rm, current_balance)
             IN  [rm |-> c.rm, file |-> rs.file, raised |-> FALSE,
                  ok |-> c.ok, reason |-> c.reason]

\* A variant of the sizing that takes position_size_percent as a fraction.
RM_calculate_position_size_whole(balance, price) ==
    RDiv(RMul(balance, R(POSITION_SIZE_PERCENT)), price)

\* calculate_position_size, for price # 0.
RM_calculate_position_size(balance, price) ==
    LET position_value == RMul(balance, RDiv(R(POSITION_SIZE_PERCENT), R(100)))
    IN  RDiv(position_value, price)

\* A variant of add_position that counts a trade only when the symbol was
\* not tracked before.
RM_add_position_count_new(rm, symbol, entry_price, quantity, now, file, outcome) ==
    LET rm2 == [rm EXCEPT
                  !.open_positions =
                      DictSet(@, symbol, [entry_price |-> entry_price,
                                          quantity    |-> quantity,
                                          timestamp   |-> now]),
                  !.daily_trades =
                      IF symbol \in DOMAIN rm.open_positions THEN @ ELSE @ + 1]
        sv  == RM_save_state(rm2, file, outcome)
    IN  [rm |-> rm2, file |-> sv.file, raised |-> sv.raised]

\* A variant of add_position that counts the trade and tracks no position.
RM_add_position_untracked(rm, symbol, entry_price, quantity, now, file, outcome) ==
    LET rm2 == [rm EXCEPT !.daily_trades = @ + 1]
        sv  == RM_save_state(rm2, file, outcome)
    IN  [rm |-> rm2, file |-> sv.file, raised |-> sv.raised]

\* add_position: [rm, file, raised].
RM_add_position(rm, symbol, entry_price, quantity, now, file, outcome) ==
    LET rm2 == [rm EXCEPT
                  !.open_positions =
                      DictSet(@, symbol, [entry_price |-> entry_price,
                                          quantity    |-> quantity,
                                          timestamp   |-> now]),
                  !.daily_trades = @ + 1]
        sv  == RM_save_state(rm2, file, outcome)
    IN  [rm |-> rm2, file |-> sv.file, raised |-> sv.raised]

\* remove_position: [rm, file, raised].
RM_remove_position(rm, symbol, file, outcome) ==
    IF symbol \in DOMAIN rm.open_positions
    THEN LET rm2 == [rm EXCEPT !.open_positions = DictDel(@, symbol)]
             sv  == RM_save_state(rm2, file, outcome)
         IN  [rm |-> rm2, file |-> sv.file, raised |-> sv.raised]
    ELSE [rm |-> rm, file |-> file, raised |-> FALSE]

\* A variant of check_stop_loss that triggers only past the threshold.
RM_check_stop_loss_strict(rm, symbol, current_price) ==
    IF symbol \notin DOMAIN rm.open_positions THEN FALSE
    ELSE LET entry_price  == rm.open_positions[symbol].entry_price
             loss_percent == RMul(RDiv(RSub(entry_price, current_price),
                                       entry_price), R(100))
         IN  RGt(loss_percent, R(STOP_LOSS_PERCENT))

\* check_stop_loss.
RM_check_stop_loss(rm, symbol, current_price) ==
    IF symbol \notin DOMAIN rm.open_positions THEN FALSE
    ELSE LET entry_price  == rm.open_positions[symbol].entry_price
             loss_percent == RMul(RDiv(RSub(entry_price, current_price),
                                       entry_price), R(100))
         IN  RGe(loss_percent, R(STOP_LOSS_PERCENT))

\* check_take_profit.
RM_check_take_profit(rm, symbol, current_price) ==
    IF symbol \notin DOMAIN rm.open_positions THEN FALSE
    ELSE LET entry_price    == rm.open_positions[symbol].entry_price
             profit_percent == RMul(RDiv(RSub(current_price, entry_price),
                                         entry_price), R(100))
         IN  RGe(profit_percent, R(TAKE_PROFIT_PERCENT))

\* A variant of record_trade_result that accumulates wins as well.
RM_record_trade_result_net(rm, profit_loss, file, outcome) ==
    LET rm2 == [rm EXCEPT !.daily_loss = RAdd(@, profit_loss)]
        sv  == RM_save_state(rm2, file, outcome)
    IN  [rm |-> rm2, file |-> sv.file, raised |-> sv.raised]

\* record_trade_result: [rm, file, raised].
RM_record_trade_result(rm, profit_loss, file, outcome) ==
    LET rm2 == [rm EXCEPT !.daily_loss =
                   RAdd(@, IF RLt(profit_loss, Zero) THEN profit_loss ELSE Zero)]
        sv  == RM_save_state(rm2, file, outcome)
    IN  [rm |-> rm2, file |-> sv.file, raised |-> sv.raised]

\* get_risk_summary.
RM_get_risk_summary(rm) ==
    [emergency_stop         |-> rm.emergency_stop,
     daily_trades           |-> rm.daily_trades,
     max_daily_trades       |-> MAX_TRADES_PER_DAY,
     daily_loss             |-> rm.daily_loss,
     max_daily_loss_percent |-> MAX_DAILY_LOSS_PERCENT,
     open_positions         |-> Cardinality(DOMAIN rm.open_positions),
     stop_loss_percent      |-> STOP_LOSS_PERCENT,
     take_profit_percent    |-> TAKE_PROFIT_PERCENT]

(***************************************************************************)
(* Portfolio (bot/portfolio.py).                                           *)
(***************************************************************************)

\* _save_trade_history: [file, raised].
PF_save_trade_history(pf, file, outcome) ==
    CASE outcome = "mkdir_error" -> [file |-> file, raised |-> TRUE]
      [] outcome = "open_error"  -> [file |-> file, raised |-> FALSE]
      [] OTHER                   -> [file |-> <<pf.trade_history>>, raised |-> FALSE]

\* __init__: an empty ledger, then _load_trade_history.  Open positions are
\* never written to disk, so a new instance starts with none.
PF_init(file) ==
    [trade_history  |-> IF Len(file) # 1 THEN <<>> ELSE file[1],
     open_positions |-> EmptyDict]

\* A variant of add_position that takes quantity and entry_price in the
\* other order.
PF_add_position_swapped(pf, symbol, side, entry_price, quantity, timestamp) ==
    [pf EXCEPT !.open_positions =
        DictSet(@, symbol, [side        |-> side,
                            entry_price |-> quantity,
                            quantity    |-> entry_price,
                            timestamp   |-> timestamp])]

\* add_position (timestamp is the caller's, or now when omitted).
PF_add_position(pf, symbol, side, entry_price, quantity, timestamp) ==
    [pf EXCEPT !.open_positions =
        DictSet(@, symbol, [side        |-> side,
                            entry_price |-> entry_price,
                            quantity    |-> quantity,
                            timestamp   |-> timestamp])]

\* The P&L of a position at a price: <<pnl, pnl_percent>>, by side.
PF_pnl(position, price) ==
    IF position.side = "buy"
    THEN <<RMul(RSub(price, position.entry_price), position.quantity),
           RMul(RDiv(RSub(price, position.entry_price), position.entry_price),
                R(100))>>
    ELSE <<RMul(RSub(position.entry_price, price), position.quantity),
           RMul(RDiv(RSub(position.entry_price, price), position.entry_price),
                R(100))>>

\* A variant of close_position that puts the new trade at the head of the
\* ledger.
PF_close_position_prepends(pf, symbol, exit_price, timestamp, file, outcome) ==
    IF symbol \notin DOMAIN pf.open_positions
    THEN [pf |-> pf, file |-> file, raised |-> FALSE, val |-> None]
    ELSE LET position == pf.open_positions[symbol]
             pl       == PF_pnl(position, exit_price)
             trade    == [symbol      |-> symbol,
                          side        |-> position.side,
                          entry_price |-> position.entry_price,
                          exit_price  |-> exit_price,
                          quantity    |-> position.quantity,
                          pnl         |-> pl[1],
                          pnl_percent |-> pl[2],
                          entry_time  |-> position.timestamp,
                          exit_time   |-> timestamp]
             pf2      == [pf EXCEPT !.trade_history = <<trade>> \o @]
             sv       == PF_save_trade_history(pf2, file, outcome)
         IN  IF sv.raised
             THEN [pf |-> pf2, file |-> sv.file, raised |-> TRUE, val |-> None]
             ELSE [pf |-> [pf2 EXCEPT !.open_positions = DictDel(@, symbol)],
                   file |-> sv.file, raised |-> FALSE, val |-> pl[1]]

\* close_position: [pf, file, raised, val]; val is the pnl or None.
PF_close_position(pf, symbol, exit_price, timestamp, file, outcome) ==
    IF symbol \notin DOMAIN pf.open_positions
    THEN [pf |-> pf, file |-> file, raised |-> FALSE, val |-> None]
    ELSE LET position == pf.open_positions[symbol]
             pl       == PF_pnl(position, exit_price)
             trade    == [symbol      |-> symbol,
                          side        |-> position.side,
                          entry_price |-> position.entry_price,
                          exit_price  |-> exit_price,
                          quantity    |-> position.quantity,
                          pnl         |-> pl[1],
                          pnl_percent |-> pl[2],
                          entry_time  |-> position.timestamp,
                          exit_time   |-> timestamp]
             pf2      == [pf EXCEPT !.trade_history = Append(@, trade)]
             sv       == PF_save_trade_history(pf2, file, outcome)
         IN  IF sv.raised
             THEN [pf |-> pf2, file |-> sv.file, raised |-> TRUE, val |-> None]
             ELSE [pf |-> [pf2 EXCEPT !.open_positions = DictDel(@, symbol)],
                   file |-> sv.file, raised |-> FALSE, val |-> pl[1]]

\* calculate_unrealized_pnl: symbol -> [pnl, pnl_percent, current_price].
PF_calculate_unrealized_pnl(pf, current_prices) ==
    [s \in DOMAIN pf.open_positions \cap DOMAIN current_prices |->
        LET pl == PF_pnl(pf.open_positions[s], current_prices[s])
        IN  [pnl |-> pl[1], pnl_percent |-> pl[2],
             current_price |-> current_prices[s]]]

\* The trades calculate_realized_pnl counts: those not skipped by the date
\* filters, in the order of the ledger.  A filter is <<>> (None, not
\* applied) or <<date>>; exit times compare as the ISO texts do.
RECURSIVE PF_trades_between(_, _, _)
PF_trades_between(trades, start_date, end_date) ==
    IF trades = <<>> THEN <<>>
    ELSE LET trade == Head(trades)
             rest  == PF_trades_between(Tail(trades), start_date, end_date)
         IN  IF start_date # None /\ trade.exit_time < start_date[1] THEN rest
             ELSE IF end_date # None /\ trade.exit_time > end_date[1] THEN rest
             ELSE <<trade>> \o rest

\* calculate_realized_pnl.
PF_calculate_realized_pnl(pf, start_date, end_date) ==
    LET counted == PF_trades_between(pf.trade_history, start_date, end_date)
        trade_count == Len(counted)
        winning_trades ==
            Cardinality({k \in 1..trade_count : RGt(counted[k].pnl, Zero)})
        losing_trades ==
            Cardinality({k \in 1..trade_count : RLt(counted[k].pnl, Zero)})
    IN  [total_pnl      |-> SeqSum([k \in 1..trade_count |-> counted[k].pnl]),
         trade_count    |-> trade_count,
         winning_trades |-> winning_trades,
         losing_trades  |-> losing_trades,
         win_rate       |-> IF trade_count > 0
                            THEN RMul(RDiv(R(winning_trades), R(trade_count)),
                                      R(100))
                            ELSE Zero]

\* get_portfolio_summary: available_balance and total_balance are what
\* get_available_balance and get_total_balance return (0 when the fetch
\* fails); current_prices is a dictionary, the empty one standing for None
\* as well (both are false in `if current_prices:`).
PF_get_portfolio_summary(pf, available_balance, total_balance, current_prices) ==
    LET unrealized ==
            IF DOMAIN current_prices # {}
            THEN PF_calculate_unrealized_pnl(pf, current_prices)
            ELSE EmptyDict
        symbols == DOMAIN unrealized
        unrealized_pnl_total ==
            IF symbols = {} THEN Zero
            ELSE LET order == CHOOSE f \in [1..Cardinality(symbols) -> symbols] :
                                 \A s \in symbols : \E k \in DOMAIN f : f[k] = s
                 IN  SeqSum([k \in DOMAIN order |-> unrealized[order[k]].pnl])
        realized == PF_calculate_realized_pnl(pf, None, None)
    IN  [available_balance |-> available_balance,
         total_balance     |-> total_balance,
         unrealized_pnl    |-> unrealized_pnl_total,
         realized_pnl      |-> realized.total_pnl,
         portfolio_value   |-> RAdd(total_balance, unrealized_pnl_total),
         open_positions    |-> Cardinality(DOMAIN pf.open_positions),
         total_trades      |-> realized.trade_count,
         win_rate          |-> realized.win_rate]

(***************************************************************************)
(* Initial state: a first start of the process on day 0 with no data       *)
(* files, the backtest not started.                                        *)
(***************************************************************************)
Call(op, args, raised, val) ==
    [op |-> op, args |-> args, raised |-> raised, val |-> val]

\* run_bot on entry to its while loop, the module's flag as imported.
\* pc is the point of control: "while" (the loop's test), "try" (a pass in
\* flight, steps 1 to 5), "summary" (step 6 of the pass), "sleep"
\* (time.sleep(60) after a pass without data or a pass that raised), "wait"
\* (the hour's wait in one-second steps, `tick` of them done), "shutdown"
\* (past the loop), "stopped" (run_bot has returned).  requested_at is
\* history: where control was when the first signal arrived.
LiveInit ==
    [pc |-> "while", shutdown_requested |-> FALSE, tick |-> 0,
     requested_at |-> "none"]

BT_init ==
    [pc |-> "idle", i |-> 0, initial_balance |-> Zero, balance |-> Zero,
     position |-> <<>>, trades |-> <<>>, equity_curve |-> <<>>,
     df |-> <<>>, signal |-> <<>>, result |-> <<>>]

Init ==
    /\ today = 0
    /\ disk \in SaveOutcomes
    /\ rm_file = <<>>
    /\ th_file = <<>>
    /\ risk_manager = RM_init(0, <<>>)
    /\ portfolio = PF_init(<<>>)
    /\ live = LiveInit
    /\ adds = 0
    /\ ret = Call("start", <<>>, FALSE, <<>>)
    /\ bt = BT_init

(***************************************************************************)
(* The environment: the calendar.                                          *)
(***************************************************************************)
AdvanceDay ==
    /\ today < MaxDay
    /\ today' = today + 1
    /\ ret' = Call("advance_day", <<>>, FALSE, <<>>)
    /\ UNCHANGED <<risk_manager, rm_file, portfolio, th_file, disk, adds,
                   live, bt>>

(***************************************************************************)
(* RiskManager driven through its public methods by any caller.            *)
(***************************************************************************)
Symbols == {SYMBOL}
\* current_balance arguments: omitted, zero, a 5% loss on 1000, and 1000.
BalanceArgs == {None, R(0), R(950), R(1000)}
\* (entry_price, quantity) arguments.
PositionArgs == {<<R(100), R(1)>>, <<R(110), R(2)>>}
PnlArgs == {R(-50), R(0), R(50)}

RiskUnchanged == UNCHANGED <<today, portfolio, th_file, disk, live, bt>>

RM_CanTrade ==
    \E b \in BalanceArgs :
        \E r \in {RM_can_trade(risk_manager, b, today, rm_file, disk)} :
        LET reset == today > risk_manager.last_reset_date
        IN  /\ risk_manager' = r.rm
            /\ rm_file' = r.file
            /\ adds' = IF reset THEN 0 ELSE adds
            /\ ret' = Call("can_trade", <<b, reset>>, r.raised, <<r.ok, r.reason>>)
            /\ RiskUnchanged

RM_AddPosition ==
    /\ risk_manager.daily_trades < MaxDailyTrades
    /\ \E s \in Symbols, a \in PositionArgs :
        \E r \in {RM_add_position(risk_manager, s, a[1], a[2], today, rm_file, disk)} :
            /\ risk_manager' = r.rm
            /\ rm_file' = r.file
            /\ adds' = adds + 1
            /\ ret' = Call("add_position", <<s, a[1], a[2]>>, r.raised, None)
            /\ RiskUnchanged

RM_RemovePosition ==
    \E s \in Symbols :
        \E r \in {RM_remove_position(risk_manager, s, rm_file, disk)} :
            /\ risk_manager' = r.rm
            /\ rm_file' = r.file
            /\ ret' = Call("remove_position", <<s>>, r.raised, None)
            /\ UNCHANGED adds
            /\ RiskUnchanged

RM_RecordTradeResult ==
    /\ RGt(risk_manager.daily_loss, R(-MaxDailyLoss))
    /\ \E pnl \in PnlArgs :
        \E r \in {RM_record_trade_result(risk_manager, pnl, rm_file, disk)} :
            /\ risk_manager' = r.rm
            /\ rm_file' = r.file
            /\ ret' = Call("record_trade_result", <<pnl>>, r.raised, None)
            /\ UNCHANGED adds
            /\ RiskUnchanged

RM_SetEmergencyStop ==
    \E enabled \in BOOLEAN :
        \E r \in {RM_set_emergency_stop(risk_manager, enabled, rm_file, disk)} :
            /\ risk_manager' = r.rm
            /\ rm_file' = r.file
            /\ ret' = Call("set_emergency_stop", <<enabled>>, r.raised, None)
            /\ UNCHANGED adds
            /\ RiskUnchanged

\* The process is started again: RiskManager(config) reads the state file.
RM_Restart ==
    /\ risk_manager' = RM_init(today, rm_file)
    /\ adds' = 0
    /\ ret' = Call("restart", <<>>, FALSE, None)
    /\ UNCHANGED rm_file
    /\ RiskUnchanged

NextRisk ==
    \/ RM_CanTrade
    \/ RM_AddPosition
    \/ RM_RemovePosition
    \/ RM_RecordTradeResult
    \/ RM_SetEmergencyStop
    \/ RM_Restart
    \/ AdvanceDay

SpecRisk == Init /\ [][NextRisk]_vars

(***************************************************************************)
(* RiskManager driven through all its public methods: those of SpecRisk    *)
(* and the four that only compute a value.                                 *)
(***************************************************************************)
\* (balance, price) arguments of calculate_position_size.
SizeArgs == {<<R(1000), R(100)>>, <<R(3), R(7)>>, <<R(0), R(100)>>}
\* current_price arguments: 97 is 3% under an entry of 100, 116 is more
\* than 5% over an entry of 100 and of 110.
ReadPrices == {R(97), R(100), R(116)}

RM_CalculatePositionSize ==
    \E a \in SizeArgs :
        /\ ret' = Call("calculate_position_size", a, FALSE,
                       RM_calculate_position_size(a[1], a[2]))
        /\ UNCHANGED <<risk_manager, rm_file, adds>>
        /\ RiskUnchanged

RM_CheckStopLossAt ==
    \E s \in Symbols, current_price \in ReadPrices :
        /\ ret' = Call("check_stop_loss", <<s, current_price>>, FALSE,
                       RM_check_stop_loss(risk_manager, s, current_price))
        /\ UNCHANGED <<risk_manager, rm_file, adds>>
        /\ RiskUnchanged

RM_CheckTakeProfitAt ==
    \E s \in Symbols, current_price \in ReadPrices :
        /\ ret' = Call("check_take_profit", <<s, current_price>>, FALSE,
                       RM_check_take_profit(risk_manager, s, current_price))
        /\ UNCHANGED <<risk_manager, rm_file, adds>>
        /\ RiskUnchanged

RM_GetRiskSummary ==
    /\ ret' = Call("get_risk_summary", <<>>, FALSE,
                   RM_get_risk_summary(risk_manager))
    /\ UNCHANGED <<risk_manager, rm_file, adds>>
    /\ RiskUnchanged

NextRiskReads ==
    \/ NextRisk
    \/ RM_CalculatePositionSize
    \/ RM_CheckStopLossAt
    \/ RM_CheckTakeProfitAt
    \/ RM_GetRiskSummary

SpecRiskReads == Init /\ [][NextRiskReads]_vars

(***************************************************************************)
(* check_stop_loss as a function of the tracked entry price and the price  *)
(* passed: the manager and the price are drawn in the initial state.       *)
(***************************************************************************)
\* Entry prices of the tracked position.
StopLossEntries == {Rat(1, 2), R(3), R(100), R(50000)}
\* Prices, as fractions of the entry price: 0.979 is a 2.1% loss, 0.98 a 2%
\* loss, 0.985 a 1.5% loss.
StopLossFractions ==
    {R(0), Rat(1, 2), Rat(979, 1000), Rat(98, 100), Rat(9801, 10000),
     Rat(985, 1000), R(1), Rat(102, 100), Rat(105, 100), R(2)}
\* Prices passed for a symbol that is not tracked.
StopLossPrices == {RMul(e, f) : e \in StopLossEntries, f \in StopLossFractions}

InitStopLoss ==
    /\ today = 0
    /\ disk = "ok"
    /\ rm_file = <<>>
    /\ th_file = <<>>
    /\ portfolio = PF_init(<<>>)
    /\ live = LiveInit
    /\ adds = 0
    /\ bt = BT_init
    /\ \/ /\ risk_manager = RM_init(0, <<>>)
          /\ \E price \in StopLossPrices :
                ret = Call("call", <<SYMBOL, price>>, FALSE, None)
       \/ \E e \in StopLossEntries, f \in StopLossFractions :
             /\ risk_manager =
                   RM_add_position(RM_init(0, <<>>), SYMBOL, e, R(1), 0,
                                   <<>>, "open_error").rm
             /\ ret = Call("call", <<SYMBOL, RMul(e, f)>>, FALSE, None)

RM_CheckStopLoss ==
    /\ ret.op = "call"
    /\ ret' = Call("check_stop_loss", ret.args, FALSE,
                   RM_check_stop_loss(risk_manager, ret.args[1], ret.args[2]))
    /\ UNCHANGED <<today, risk_manager, rm_file, portfolio, th_file, disk,
                   adds, live, bt>>

NextStopLoss == RM_CheckStopLoss

SpecStopLoss == InitStopLoss /\ [][NextStopLoss]_vars

(***************************************************************************)
(* Portfolio driven through its public methods by any caller.              *)
(***************************************************************************)
PFSymbols == {SYMBOL, "ETH/USDT"}
\* (side, entry_price, quantity) arguments: a long and a short position.
PFPositionArgs == {<<"buy", R(100), R(1)>>, <<"sell", R(110), R(2)>>}
ExitPrices == {R(90), R(110)}

PortfolioUnchanged ==
    UNCHANGED <<today, risk_manager, rm_file, disk, adds, live, bt>>

PF_AddPosition ==
    \E s \in PFSymbols, a \in PFPositionArgs :
        /\ portfolio' = PF_add_position(portfolio, s, a[1], a[2], a[3], today)
        /\ ret' = Call("pf_add_position", <<s, a[1], a[2], a[3]>>, FALSE, None)
        /\ UNCHANGED th_file
        /\ PortfolioUnchanged

PF_ClosePosition ==
    /\ Len(portfolio.trade_history) < MaxTrades
    /\ \E s \in PFSymbols, exit_price \in ExitPrices :
        \E r \in {PF_close_position(portfolio, s, exit_price, today, th_file, disk)} :
            /\ portfolio' = r.pf
            /\ th_file' = r.file
            /\ ret' = Call("pf_close_position", <<s, exit_price>>, r.raised, r.val)
            /\ PortfolioUnchanged

\* The process is started again: Portfolio(exchange) reads the history file.
PF_Restart ==
    /\ portfolio' = PF_init(th_file)
    /\ ret' = Call("restart", <<>>, FALSE, None)
    /\ UNCHANGED th_file
    /\ PortfolioUnchanged

NextPortfolio ==
    \/ PF_AddPosition
    \/ PF_ClosePosition
    \/ PF_Restart
    \/ AdvanceDay

SpecPortfolio == Init /\ [][NextPortfolio]_vars

(***************************************************************************)
(* One Portfolio instance driven through the methods that write and the    *)
(* methods that read its ledger.                                           *)
(***************************************************************************)
\* current_prices arguments: every dictionary that gives one price to some
\* of the symbols, the empty one included.
PriceMaps ==
    {[s \in S |-> price] : S \in SUBSET PFSymbols, price \in ExitPrices}
\* start_date and end_date arguments: none, the day of the trades, the day
\* after.
DateArgs == {None, <<0>>, <<1>>}
\* USDT balances the exchange reports (0 also stands for a failed fetch).
SummaryBalances == {R(0), R(1000)}

PF_CalculateUnrealizedPnl ==
    \E current_prices \in PriceMaps :
        /\ ret' = Call("pf_calculate_unrealized_pnl", <<current_prices>>, FALSE,
                       PF_calculate_unrealized_pnl(portfolio, current_prices))
        /\ UNCHANGED <<portfolio, th_file>>
        /\ PortfolioUnchanged

PF_CalculateRealizedPnl ==
    \E start_date \in DateArgs, end_date \in DateArgs :
        /\ ret' = Call("pf_calculate_realized_pnl", <<start_date, end_date>>,
                       FALSE,
                       PF_calculate_realized_pnl(portfolio, start_date, end_date))
        /\ UNCHANGED <<portfolio, th_file>>
        /\ PortfolioUnchanged

PF_GetPortfolioSummary ==
    \E balance \in SummaryBalances, current_prices \in PriceMaps :
        /\ ret' = Call("pf_get_portfolio_summary", <<balance, current_prices>>,
                       FALSE,
                       PF_get_portfolio_summary(portfolio, balance, balance,
                                                current_prices))
        /\ UNCHANGED <<portfolio, th_file>>
        /\ PortfolioUnchanged

\* add_position as the ledger's caller uses it: the first symbol is bought
\* long, the second is sold short.
PF_LedgerAddPosition ==
    /\ PF_AddPosition
    /\ ret'.args[2] = (IF ret'.args[1] = SYMBOL THEN "buy" ELSE "sell")

NextLedger ==
    \/ PF_LedgerAddPosition
    \/ PF_ClosePosition
    \/ PF_CalculateUnrealizedPnl
    \/ PF_CalculateRealizedPnl
    \/ PF_GetPortfolioSummary

SpecLedger == Init /\ [][NextLedger]_vars

(***************************************************************************)
(* The live loop (bot/main.py, run_bot): one pass of the while loop.       *)
(* An exception anywhere in the pass is caught by the loop's handler, so   *)
(* the pass ends there with the state as mutated so far.                   *)
(***************************************************************************)

\* Steps 3 to 5 of one pass that received market data.  strategy_signal is
\* the strategy's answer, current_price the last close, balance the value of
\* portfolio.get_available_balance (0 when the balance fetch failed).
\* [rm, rm_file, pf, th_file, raised, signal, can_trade, action].
run_iteration(rm, rmf, pf, thf, now, outcome, strategy_signal, current_price, balance) ==
    LET signal_result ==
            IF SYMBOL \in DOMAIN rm.open_positions
               /\ (\/ RM_check_stop_loss(rm, SYMBOL, current_price)
                   \/ RM_check_take_profit(rm, SYMBOL, current_price))
            THEN "sell" ELSE strategy_signal
        ct == RM_can_trade(rm, balance, now, rmf, outcome)
        Out(rm2, rmf2, pf2, thf2, raised, action) ==
            [rm |-> rm2, rm_file |-> rmf2, pf |-> pf2, th_file |-> thf2,
             raised |-> raised, signal |-> signal_result,
             can_trade |-> ct.ok, action |-> action]
    IN  IF ct.raised THEN Out(ct.rm, ct.file, pf, thf, TRUE, "none")
        ELSE IF signal_result = "buy" /\ ct.ok
                /\ SYMBOL \notin DOMAIN ct.rm.open_positions
        THEN LET quantity == RM_calculate_position_size(balance, current_price)
                 a == RM_add_position(ct.rm, SYMBOL, current_price, quantity,
                                      now, ct.file, outcome)
             IN  IF a.raised THEN Out(a.rm, a.file, pf, thf, TRUE, "buy")
                 ELSE Out(a.rm, a.file,
                          PF_add_position(pf, SYMBOL, "buy", current_price,
                                          quantity, now),
                          thf, FALSE, "buy")
        ELSE IF signal_result = "sell" /\ SYMBOL \in DOMAIN ct.rm.open_positions
        THEN LET position    == ct.rm.open_positions[SYMBOL]
                 quantity    == position.quantity
                 entry_price == position.entry_price
                 pnl == RMul(RSub(current_price, entry_price), quantity)
                 c   == PF_close_position(pf, SYMBOL, current_price, now, thf,
                                          outcome)
                 rmv == RM_remove_position(ct.rm, SYMBOL, ct.file, outcome)
                 rec == RM_record_trade_result(rmv.rm, pnl, rmv.file, outcome)
             IN  IF c.raised THEN Out(ct.rm, ct.file, c.pf, c.file, TRUE, "sell")
                 ELSE IF rmv.raised
                 THEN Out(rmv.rm, rmv.file, c.pf, c.file, TRUE, "sell")
                 ELSE Out(rec.rm, rec.file, c.pf, c.file, rec.raised, "sell")
        ELSE Out(ct.rm, ct.file, pf, thf, FALSE, "hold")

Signals == {"buy", "sell", "hold"}
\* Closes seen by the loop: 105 is 5% over 100 (take-profit), 100 is more
\* than 2% under 105 (stop-loss), an unchanged close triggers neither.
LivePrices == {R(100), R(105)}
\* Free USDT balances the exchange reports (0 also stands for a failed fetch).
LiveBalances == {R(0), R(1000)}

\* A pass that received no market data: it sleeps and continues.
PassNoData ==
    /\ ret' = Call("iteration", <<"no_data">>, FALSE, None)
    /\ UNCHANGED <<today, risk_manager, rm_file, portfolio, th_file, disk, adds, bt>>

\* A pass that received market data, up to the end of its bookkeeping.
Pass ==
    \E strategy_signal \in Signals, current_price \in LivePrices,
       balance \in LiveBalances :
        \E r \in {run_iteration(risk_manager, rm_file, portfolio, th_file, today,
                               disk, strategy_signal, current_price, balance)} :
        LET reset == today > risk_manager.last_reset_date
        IN  /\ Len(r.pf.trade_history) <= MaxLiveTrades
            /\ risk_manager' = r.rm
            /\ rm_file' = r.rm_file
            /\ portfolio' = r.pf
            /\ th_file' = r.th_file
            /\ adds' = (IF reset THEN 0 ELSE adds)
                         + (IF r.action = "buy" THEN 1 ELSE 0)
            /\ ret' = Call("iteration", <<r.signal>>,
                           r.raised, <<r.action, r.can_trade>>)
            /\ UNCHANGED <<today, disk, bt>>

(***************************************************************************)
(* The loop seen pass by pass, over days and restarts of the process: each *)
(* step is one whole pass, and the control between passes is left out.     *)
(***************************************************************************)
IterationNoData == PassNoData /\ UNCHANGED live

Iteration == Pass /\ UNCHANGED live

\* The process is stopped and started again: run_bot builds a new
\* RiskManager and a new Portfolio from the files.
Restart ==
    /\ risk_manager' = RM_init(today, rm_file)
    /\ portfolio' = PF_init(th_file)
    /\ adds' = 0
    /\ ret' = Call("restart", <<>>, FALSE, None)
    /\ UNCHANGED <<today, rm_file, th_file, disk, live, bt>>

Next ==
    \/ Iteration
    \/ IterationNoData
    \/ Restart
    \/ AdvanceDay

Spec == Init /\ [][Next]_vars

(***************************************************************************)
(* One pass of the loop as a function of the state it starts in and of its *)
(* inputs, both drawn in the initial state: the risk state (the emergency  *)
(* stop, which only a caller outside run_bot sets, the day's trade count,  *)
(* the day's baseline, a tracked position), the day, the portfolio's view  *)
(* of the position, the strategy's signal, the close and the balance.      *)
(* The state file is there when saves work.  Where the data directory      *)
(* cannot be created, add_position has raised before the portfolio was     *)
(* told of the position, so the portfolio tracks none.                     *)
(***************************************************************************)
\* Balances: 900 is a loss of 10% on a baseline of 1000.
GateBalances == {R(0), R(900), R(1000)}
\* Closes: against an entry of 100, 97 triggers the stop-loss, 105 the
\* take-profit, 100 neither.
GatePrices == {R(97), R(100), R(105)}
\* The position tracked at the start of the pass, if any.
GatePosition == [entry_price |-> R(100), quantity |-> R(1), timestamp |-> 0]

\* The risk states a pass may start in, last reset on day 0.
GateRiskStates ==
    {[RM_defaults(0) EXCEPT !.emergency_stop = es,
                            !.daily_trades = dt,
                            !.initial_daily_balance = idb,
                            !.open_positions = op] :
        es \in BOOLEAN, dt \in 0..MAX_TRADES_PER_DAY,
        idb \in {None, R(1000)},
        op \in {EmptyDict, DictSet(EmptyDict, SYMBOL, GatePosition)}}

InitGate ==
    /\ today \in 0..MaxDay
    /\ disk \in SaveOutcomes
    /\ risk_manager \in GateRiskStates
    /\ rm_file = IF disk = "ok" THEN <<StateToJson(risk_manager)>> ELSE <<>>
    /\ th_file = <<>>
    /\ \E tracked \in BOOLEAN :
          portfolio =
              IF /\ tracked
                 /\ disk # "mkdir_error"
                 /\ SYMBOL \in DOMAIN risk_manager.open_positions
              THEN PF_add_position(PF_init(<<>>), SYMBOL, "buy",
                                   GatePosition.entry_price,
                                   GatePosition.quantity, 0)
              ELSE PF_init(<<>>)
    /\ live = LiveInit
    /\ adds = 0
    /\ bt = BT_init
    /\ \E strategy_signal \in Signals, current_price \in GatePrices,
          balance \in GateBalances :
          ret = Call("call", <<strategy_signal, current_price, balance>>,
                     FALSE, None)

\* Steps 3 to 5 of the pass drawn.
GatedPass ==
    /\ ret.op = "call"
    /\ \E r \in {run_iteration(risk_manager, rm_file, portfolio, th_file, today,
                                disk, ret.args[1], ret.args[2], ret.args[3])} :
          /\ risk_manager' = r.rm
          /\ rm_file' = r.rm_file
          /\ portfolio' = r.pf
          /\ th_file' = r.th_file
          /\ adds' = IF r.action = "buy" THEN 1 ELSE 0
          /\ ret' = Call("iteration", ret.args, r.raised,
                         <<r.action, r.can_trade, r.signal>>)
    /\ UNCHANGED <<today, disk, live, bt>>

NextGate == GatedPass

SpecGate == InitGate /\ [][NextGate]_vars

(***************************************************************************)
(* The control of the loop in one run of the process: the test of the      *)
(* flag, a pass, the portfolio summary, the sleeps, the shutdown, and the  *)
(* signal handler run by the interpreter between two of these steps.       *)
(***************************************************************************)
\* Where control goes when a step of a pass ends: an exception is caught by
\* `except Exception`, which logs it and sleeps a minute; otherwise the
\* pass goes on.  A variant first, in which the exception leaves run_bot.
PcAfterStep_reraise(raised, next) == IF raised THEN "stopped" ELSE next

PcAfterStep(raised, next) == IF raised THEN "sleep" ELSE next

\* The loop's test.  A variant first, which goes round once more.
PcAfterTest_once_more(shutdown_requested) == "try"

PcAfterTest(shutdown_requested) ==
    IF shutdown_requested THEN "shutdown" ELSE "try"

LoopUnchanged ==
    UNCHANGED <<today, risk_manager, rm_file, portfolio, th_file, disk, adds,
                ret, bt>>

\* while not shutdown_requested.
LoopTest ==
    /\ live.pc = "while"
    /\ live' = [live EXCEPT !.pc = PcAfterTest(live.shutdown_requested)]
    /\ LoopUnchanged

\* Steps 1: no data; time.sleep(60), then `continue`.
LoopNoData ==
    /\ live.pc = "try"
    /\ PassNoData
    /\ live' = [live EXCEPT !.pc = "sleep"]

\* Steps 1 and 2 raise: fetch_market_data catches ccxt.BaseError only, and
\* the strategy is not guarded.  Nothing was changed.
LoopRaises ==
    /\ live.pc = "try"
    /\ \E step \in {"fetch_market_data", "analyze_data"} :
          ret' = Call("iteration", <<step>>, TRUE, None)
    /\ live' = [live EXCEPT !.pc = PcAfterStep(TRUE, "summary")]
    /\ UNCHANGED <<today, risk_manager, rm_file, portfolio, th_file, disk, adds, bt>>

\* Steps 1 to 5 with market data.
LoopIteration ==
    /\ live.pc = "try"
    /\ Pass
    /\ live' = [live EXCEPT !.pc = PcAfterStep(ret'.raised, "summary")]

\* Step 6: the portfolio summary is computed and logged, or raises.
PortfolioSummary ==
    /\ live.pc = "summary"
    /\ \E raised \in BOOLEAN :
          /\ ret' = Call("get_portfolio_summary", <<>>, raised, None)
          /\ live' = [live EXCEPT !.pc = PcAfterStep(raised, "wait"), !.tick = 0]
    /\ UNCHANGED <<today, risk_manager, rm_file, portfolio, th_file, disk, adds, bt>>

\* time.sleep(60) after a pass without data or a pass that raised: the flag
\* is not looked at before the minute is over.
Sleep ==
    /\ live.pc = "sleep"
    /\ live' = [live EXCEPT !.pc = "while"]
    /\ LoopUnchanged

\* One turn of `for _ in range(sleep_duration)`: leave the wait when the
\* range is used up or the flag is set, else time.sleep(1).
WaitTick ==
    /\ live.pc = "wait"
    /\ live' = IF live.tick = SleepDuration \/ live.shutdown_requested
               THEN [live EXCEPT !.pc = "while", !.tick = 0]
               ELSE [live EXCEPT !.tick = @ + 1]
    /\ LoopUnchanged

\* Past the loop: the stop is logged and the trade history exported.
GracefulShutdown ==
    /\ live.pc = "shutdown"
    /\ live' = [live EXCEPT !.pc = "stopped"]
    /\ ret' = Call("export_trade_history_csv", <<portfolio.trade_history>>,
                   FALSE, None)
    /\ UNCHANGED <<today, risk_manager, rm_file, portfolio, th_file, disk, adds, bt>>

\* SIGINT or SIGTERM is delivered while run_bot runs: the handler sets the
\* flag and returns to the interrupted code.
signal_handler ==
    /\ live.pc # "stopped"
    /\ ~live.shutdown_requested
    /\ live' = [live EXCEPT !.shutdown_requested = TRUE,
                            !.requested_at = live.pc]
    /\ LoopUnchanged

NextLoop ==
    \/ LoopTest
    \/ LoopIteration
    \/ LoopNoData
    \/ LoopRaises
    \/ PortfolioSummary
    \/ Sleep
    \/ WaitTick
    \/ GracefulShutdown
    \/ signal_handler

SpecLoop == Init /\ [][NextLoop]_vars

\* run_bot is a running process: it does not stay for ever at a point of
\* control where it has a step to take.  At every such point one of the
\* steps below can be taken (at "try", the pass without data), so their
\* fairness is the fairness of the loop; which pass is taken at "try", and
\* when signals arrive, is left to the environment.
LoopProgress ==
    \/ LoopTest
    \/ LoopNoData
    \/ LoopRaises
    \/ PortfolioSummary
    \/ Sleep
    \/ WaitTick
    \/ GracefulShutdown

SpecLive == SpecLoop /\ WF_vars(LoopProgress)

(***************************************************************************)
(* The live loop with the process killed in the middle of a save.  Every   *)
(* save is `with open(file, 'w') as f: json.dump(..., f)` on the data file *)
(* itself: a process that dies between the open and the end of the write   *)
(* leaves that file torn.  The pass stops at the save it dies in, and the  *)
(* process is started again from the files.  Seen pass by pass.            *)
(***************************************************************************)
\* The saves of one pass, by the method that makes them, in program order:
\* the daily reset inside can_trade, then add_position on a buy, or
\* close_position, remove_position and record_trade_result on a sell.
CrashPoints == {"reset_daily_limits", "add_position", "close_position",
                "remove_position", "record_trade_result"}

IterationCrash ==
    /\ disk = "ok"
    /\ \E strategy_signal \in Signals, current_price \in LivePrices,
          balance \in LiveBalances, point \in CrashPoints :
        \E r \in {run_iteration(risk_manager, rm_file, portfolio, th_file, today,
                               disk, strategy_signal, current_price, balance)} :
        LET reset == today > risk_manager.last_reset_date
            ct    == RM_can_trade(risk_manager, balance, today, rm_file, disk)
            rmv   == RM_remove_position(ct.rm, SYMBOL, ct.file, disk)
            \* <<risk file, history file>> as the last complete save before
            \* the interrupted one left them, and as the kill leaves them.
            files ==
                CASE point = "reset_daily_limits" ->
                         [before |-> <<rm_file, th_file>>,
                          after  |-> <<Torn, th_file>>]
                  [] point = "add_position" ->
                         [before |-> <<ct.file, th_file>>,
                          after  |-> <<Torn, th_file>>]
                  [] point = "close_position" ->
                         [before |-> <<ct.file, th_file>>,
                          after  |-> <<ct.file, Torn>>]
                  [] point = "remove_position" ->
                         [before |-> <<ct.file, r.th_file>>,
                          after  |-> <<Torn, r.th_file>>]
                  [] OTHER ->
                         [before |-> <<rmv.file, r.th_file>>,
                          after  |-> <<Torn, r.th_file>>]
        IN  /\ Len(r.pf.trade_history) <= MaxLiveTrades
            /\ CASE point = "reset_daily_limits" -> reset
                  [] point = "add_position" -> r.action = "buy"
                  [] point = "close_position" ->
                         r.action = "sell" /\ SYMBOL \in DOMAIN portfolio.open_positions
                  [] OTHER -> r.action = "sell"
            /\ rm_file' = files.after[1]
            /\ th_file' = files.after[2]
            /\ risk_manager' = RM_init(today, files.after[1])
            /\ portfolio' = PF_init(files.after[2])
            /\ adds' = 0
            /\ ret' = Call("crash", <<point, files.before[1], files.before[2]>>,
                           FALSE, None)
            /\ UNCHANGED <<today, disk, live, bt>>

NextCrash ==
    \/ Iteration
    \/ IterationNoData
    \/ IterationCrash
    \/ Restart
    \/ AdvanceDay

SpecCrash == Init /\ [][NextCrash]_vars

(***************************************************************************)
(* Properties of RiskManager, checked under SpecRisk.                      *)
(***************************************************************************)

\* C1: whenever emergency_stop is set when can_trade is called, the call
\* returns (False, "Emergency stop is active"), whatever the balance
\* argument (None included), daily_trades and initial_daily_balance are, and
\* whether or not the call first performs the daily reset.
C1_EmergencyStopBlocks ==
    [][(ret'.op = "can_trade" /\ risk_manager.emergency_stop)
          => /\ ~ret'.raised
             /\ ret'.val = <<FALSE, <<"Emergency stop is active">>>>
             /\ risk_manager'.emergency_stop]_vars

\* What does hold of the emergency stop: a can_trade call made while it is
\* set never allows trading and leaves it set; when the call returns, it
\* returns (False, "Emergency stop is active").
EmergencyStopNeverAllows ==
    [][(ret'.op = "can_trade" /\ risk_manager.emergency_stop)
          => /\ ret'.val[1] = FALSE
             /\ ~ret'.raised => ret'.val[2] = <<"Emergency stop is active">>
             /\ risk_manager'.emergency_stop]_vars

\* C2: add_position for a symbol that is already in open_positions is
\* rejected: the tracked position keeps its entry_price and quantity and
\* daily_trades is not incremented.
C2_AddPositionRejectsOpenSymbol ==
    [][(ret'.op = "add_position"
          /\ ret'.args[1] \in DOMAIN risk_manager.open_positions)
          => /\ risk_manager'.open_positions[ret'.args[1]].entry_price
                  = risk_manager.open_positions[ret'.args[1]].entry_price
             /\ risk_manager'.open_positions[ret'.args[1]].quantity
                  = risk_manager.open_positions[ret'.args[1]].quantity
             /\ risk_manager'.daily_trades = risk_manager.daily_trades]_vars

\* The daily loss, in percent of the day's baseline, that a balance stands for.
LossPercent(initial, current) ==
    RMul(RDiv(RSub(initial, current), initial), R(100))

\* C6: with emergency_stop false, daily_trades below the limit and a baseline
\* B recorded for the current day, can_trade(currentBalance) returns
\* (False, daily loss limit) for every currentBalance >= 0 whose loss
\* (B - currentBalance)/B*100 is at least max_daily_loss_percent.
C6_DailyLossLimitBlocks ==
    [][(/\ ret'.op = "can_trade"
        /\ ~risk_manager.emergency_stop
        /\ risk_manager.daily_trades < MAX_TRADES_PER_DAY
        /\ today = risk_manager.last_reset_date
        /\ risk_manager.initial_daily_balance # None
        /\ ret'.args[1] # None
        /\ RGe(ret'.args[1], Zero)
        /\ RGe(LossPercent(risk_manager.initial_daily_balance, ret'.args[1]),
               R(MAX_DAILY_LOSS_PERCENT)))
          => ret'.val = <<FALSE, <<"Daily loss limit reached">>>>]_vars

\* C7: on one calendar day and with emergency_stop false, once add_position
\* has been called max_trades_per_day times on the manager since its last
\* daily reset, every can_trade call of that day returns
\* (False, "Daily trade limit reached (N)"), N = max_trades_per_day, for every
\* balance; and remove_position and record_trade_result never lower
\* daily_trades.
C7_DailyTradeLimitBlocks ==
    [][/\ (/\ ret'.op = "can_trade"
           /\ ~risk_manager.emergency_stop
           /\ today = risk_manager.last_reset_date
           /\ adds >= MAX_TRADES_PER_DAY)
          => /\ ~ret'.raised
             /\ ret'.val = <<FALSE, <<"Daily trade limit reached",
                                      MAX_TRADES_PER_DAY>>>>
       /\ ret'.op \in {"remove_position", "record_trade_result"}
          => risk_manager'.daily_trades >= risk_manager.daily_trades]_vars

\* C7 witness: after the limit's worth of add_position calls, and a
\* remove_position in between, can_trade with a balance was refused for the
\* trade limit.
C7_Witness ==
    /\ ret.op = "can_trade"
    /\ ret.args[1] = R(1000)
    /\ adds = MAX_TRADES_PER_DAY
    /\ risk_manager.daily_trades = MAX_TRADES_PER_DAY
    /\ risk_manager.open_positions = EmptyDict
    /\ ~risk_manager.emergency_stop
    /\ ret.val = <<FALSE, <<"Daily trade limit reached", MAX_TRADES_PER_DAY>>>>

\* C20: when persisting fails at any step of a save (creating the data
\* directory, opening the file or writing), no exception leaves the
\* mutating operation (add_position, remove_position, record_trade_result,
\* set_emergency_stop, the daily reset inside can_trade) and its effect on
\* the state in memory stands.
C20_SaveFailureSwallowed ==
    [][(/\ disk # "ok"
        /\ ret'.op \in {"add_position", "remove_position",
                        "record_trade_result", "set_emergency_stop",
                        "can_trade"})
          => /\ ~ret'.raised
             /\ ret'.op = "add_position"
                   => ret'.args[1] \in DOMAIN risk_manager'.open_positions
             /\ ret'.op = "remove_position"
                   => ret'.args[1] \notin DOMAIN risk_manager'.open_positions
             /\ ret'.op = "record_trade_result"
                   => risk_manager'.daily_loss
                         = RAdd(risk_manager.daily_loss,
                                RMul(ret'.args[1],
                                     IF RLt(ret'.args[1], Zero)
                                     THEN R(1) ELSE Zero))
             /\ ret'.op = "set_emergency_stop"
                   => risk_manager'.emergency_stop = ret'.args[1]
             /\ ret'.op = "can_trade"
                   => risk_manager'.last_reset_date = today]_vars

\* C21: when the process dies during a save of the risk state or of the
\* trade history, the file still holds the last complete snapshot: the
\* RiskManager and the Portfolio constructed afterwards load the state that
\* was saved last before the interrupted write.
C21_CrashKeepsSnapshot ==
    [][ret'.op = "crash"
          => /\ risk_manager' = RM_init(today, ret'.args[2])
             /\ portfolio' = PF_init(ret'.args[3])]_vars

\* C22: the risk state round-trips for all of its fields: a RiskManager
\* constructed on the same day from the file the old instance saved has the
\* old instance's emergency_stop, daily_loss, daily_trades, last_reset_date,
\* initial_daily_balance and open_positions.
C22_AllFieldsRoundTrip ==
    [][(/\ ret'.op = "restart"
        /\ disk = "ok"
        /\ rm_file # <<>>
        /\ today = risk_manager.last_reset_date)
          => risk_manager' = risk_manager]_vars

\* What does hold of a restart from a saved file: every field but
\* initial_daily_balance is the old instance's.
RoundTripButBaseline ==
    [][(/\ ret'.op = "restart"
        /\ disk = "ok"
        /\ rm_file # <<>>)
          => risk_manager' = [risk_manager EXCEPT
                                !.initial_daily_balance = None]]_vars

\* C23: after a state-mutating operation whose save succeeds (add_position,
\* remove_position of a tracked symbol, record_trade_result,
\* set_emergency_stop, the daily reset), loading the saved file gives the
\* daily_trades, daily_loss, open_positions and emergency_stop the instance
\* has in memory.
C23_SavedFieldsRoundTrip ==
    [][(/\ disk = "ok"
        /\ \/ ret'.op \in {"add_position", "record_trade_result",
                            "set_emergency_stop"}
           \/ /\ ret'.op = "remove_position"
              /\ ret'.args[1] \in DOMAIN risk_manager.open_positions
           \/ /\ ret'.op = "can_trade"
              /\ ret'.args[2])
          => /\ Len(rm_file') = 1
             /\ \A now \in 0..MaxDay :
                  LET loaded == RM_init(now, rm_file')
                  IN  /\ loaded.daily_trades = risk_manager'.daily_trades
                      /\ loaded.daily_loss = risk_manager'.daily_loss
                      /\ loaded.open_positions = risk_manager'.open_positions
                      /\ loaded.emergency_stop = risk_manager'.emergency_stop]_vars

\* C23 witness: a file saved by add_position after a loss was recorded and
\* the emergency stop set, with two trades counted and a position open: none
\* of the four fields has its default, and the load gives the position back.
C23_Witness ==
    /\ disk = "ok"
    /\ ret.op = "add_position"
    /\ risk_manager.daily_trades = 2
    /\ risk_manager.daily_loss = R(-50)
    /\ risk_manager.emergency_stop
    /\ SYMBOL \in DOMAIN risk_manager.open_positions
    /\ Len(rm_file) = 1
    /\ RM_init(today, rm_file).open_positions = risk_manager.open_positions

\* The emergency stop is set in the instance and in the state file.
StopHeld ==
    /\ risk_manager.emergency_stop
    /\ Len(rm_file) = 1
    /\ rm_file[1].emergency_stop

C34_DailyReset ==
    [][ret'.op = "can_trade" =>
         /\ risk_manager'.emergency_stop = risk_manager.emergency_stop
         /\ risk_manager'.open_positions = risk_manager.open_positions
         /\ IF today > risk_manager.last_reset_date
            THEN /\ risk_manager'.daily_loss = Zero
                 /\ risk_manager'.daily_trades = 0
                 /\ risk_manager'.last_reset_date = today
                 /\ risk_manager'.initial_daily_balance =
                       IF /\ ~ret'.raised
                          /\ ~risk_manager.emergency_stop
                          /\ Truthy(ret'.args[1])
                       THEN ret'.args[1] ELSE None
                 /\ ret'.val[2] # <<"Daily trade limit reached",
                                    MAX_TRADES_PER_DAY>>
                 /\ ret'.val[2] # <<"Daily loss limit reached">>
                 /\ (~ret'.raised /\ ~risk_manager.emergency_stop)
                       => ret'.val = <<TRUE, <<"Trading allowed">>>>
            ELSE /\ risk_manager'.daily_loss = risk_manager.daily_loss
                 /\ risk_manager'.daily_trades = risk_manager.daily_trades
                 /\ risk_manager'.last_reset_date
                       = risk_manager.last_reset_date
                 /\ risk_manager.initial_daily_balance # None
                       => risk_manager'.initial_daily_balance
                             = risk_manager.initial_daily_balance
                 /\ ~ret'.raised]_vars

\* C34 witness: on the second day, with a position tracked since the first
\* day, a can_trade call with a balance of 950 has performed the reset,
\* allowed trading and taken 950 as the day's baseline.
C34_Witness ==
    /\ today = 1
    /\ ret.op = "can_trade"
    /\ ret.args = <<R(950), TRUE>>
    /\ ret.val = <<TRUE, <<"Trading allowed">>>>
    /\ risk_manager.daily_trades = 0
    /\ risk_manager.daily_loss = Zero
    /\ risk_manager.last_reset_date = 1
    /\ risk_manager.initial_daily_balance = R(950)
    /\ SYMBOL \in DOMAIN risk_manager.open_positions
    /\ risk_manager.open_positions[SYMBOL].timestamp = 0

\* The denial of a step that exists: a call that performs the reset starts
\* from a used-up trade count and a baseline the balance passed is 5% under,
\* and allows trading.  TLC refutes this formula with such a step.
NoLimitLiftedByReset ==
    [][~(/\ ret'.op = "can_trade"
         /\ today > risk_manager.last_reset_date
         /\ risk_manager.daily_trades >= MAX_TRADES_PER_DAY
         /\ risk_manager.initial_daily_balance = R(1000)
         /\ ret'.args[1] = R(950)
         /\ ret'.val[1] = TRUE)]_vars

\* C35: a fresh RiskManager has daily_loss = 0, and daily_loss <= 0 in
\* every state after it.  record_trade_result(pnl) adds pnl to daily_loss
\* when pnl < 0 and leaves it unchanged when pnl >= 0; a can_trade call that
\* performs the daily reset sets it to 0; a restart takes it from the state
\* file, or 0 without one; no other call changes it.  Hence between two
\* resets daily_loss never increases and is the sum of the negative pnl
\* values recorded since the last reset.
C35_DailyLossIsSumOfLosses ==
    /\ risk_manager.daily_loss = Zero
    /\ [][/\ RLe(risk_manager'.daily_loss, Zero)
          /\ CASE ret'.op = "record_trade_result" ->
                     risk_manager'.daily_loss =
                        IF RLt(ret'.args[1], Zero)
                        THEN RAdd(risk_manager.daily_loss, ret'.args[1])
                        ELSE risk_manager.daily_loss
               [] ret'.op = "can_trade" ->
                     risk_manager'.daily_loss =
                        IF today > risk_manager.last_reset_date
                        THEN Zero ELSE risk_manager.daily_loss
               [] ret'.op = "restart" ->
                     risk_manager'.daily_loss =
                        IF Len(rm_file) = 1 THEN rm_file[1].daily_loss
                        ELSE Zero
               [] OTHER ->
                     risk_manager'.daily_loss = risk_manager.daily_loss]_vars

\* C35 witness: on the second day, after the daily reset, a second loss of
\* 50 has been recorded and daily_loss is -100.
C35_Witness ==
    /\ today = 1
    /\ risk_manager.last_reset_date = 1
    /\ ret.op = "record_trade_result"
    /\ ret.args = <<R(-50)>>
    /\ risk_manager.daily_loss = R(-100)

(***************************************************************************)
(* Properties of the methods that read, checked under SpecRiskReads.       *)
(***************************************************************************)

\* C40: calculate_position_size, check_stop_loss, check_take_profit and
\* get_risk_summary are read-only: each leaves emergency_stop, daily_loss,
\* daily_trades, last_reset_date, initial_daily_balance and open_positions
\* as they were and writes nothing to the state file; and
\* calculate_position_size(balance, price) returns
\* balance * position_size_percent / 100 / price.
C40_ReadsChangeNothing ==
    [][ret'.op \in {"calculate_position_size", "check_stop_loss",
                     "check_take_profit", "get_risk_summary"}
         => /\ ~ret'.raised
            /\ risk_manager' = risk_manager
            /\ rm_file' = rm_file
            /\ ret'.op = "calculate_position_size"
                  => ret'.val = RDiv(RDiv(RMul(ret'.args[1],
                                               R(POSITION_SIZE_PERCENT)),
                                          R(100)),
                                     ret'.args[2])
            /\ ret'.op = "get_risk_summary"
                  => /\ ret'.val.daily_trades = risk_manager.daily_trades
                     /\ ret'.val.daily_loss = risk_manager.daily_loss
                     /\ ret'.val.emergency_stop = risk_manager.emergency_stop]_vars

\* C40 witness: with a position tracked and saved, a loss recorded and the
\* day's baseline taken, calculate_position_size(1000, 100) has returned 1.
C40_Witness ==
    /\ ret.op = "calculate_position_size"
    /\ ret.args = <<R(1000), R(100)>>
    /\ ret.val = R(1)
    /\ SYMBOL \in DOMAIN risk_manager.open_positions
    /\ risk_manager.daily_loss = R(-50)
    /\ risk_manager.initial_daily_balance = R(1000)
    /\ Len(rm_file) = 1
    /\ rm_file[1] = StateToJson(risk_manager)

\* The checks answer in the states the reads are made in: a stop-loss has
\* been reported for the tracked position.
StopLossReported ==
    /\ ret.op = "check_stop_loss"
    /\ ret.val = TRUE
    /\ SYMBOL \in DOMAIN risk_manager.open_positions
    /\ risk_manager.daily_trades = 2

(***************************************************************************)
(* Properties of check_stop_loss, checked under SpecStopLoss.              *)
(***************************************************************************)

\* C26: for a symbol with a tracked position (entry price above 0),
\* check_stop_loss(symbol, price) is true iff the loss
\* (entry - price) / entry * 100 is at least stop_loss_percent, that is iff
\* price <= entry * (100 - stop_loss_percent) / 100; with 2% and an entry of
\* 100 it is true at 97.9 (a 2.1% loss), false at 98.5 (1.5%) and true at
\* 98 (exactly 2%).  For a symbol that is not tracked it is false.
C26_StopLossThreshold ==
    ret.op = "check_stop_loss" =>
        LET symbol == ret.args[1]
            price  == ret.args[2]
        IN  IF symbol \in DOMAIN risk_manager.open_positions
            THEN LET entry == risk_manager.open_positions[symbol].entry_price
                 IN  /\ ret.val = RLe(price,
                                      RMul(entry,
                                           Rat(100 - STOP_LOSS_PERCENT, 100)))
                     /\ (entry = R(100) /\ price = Rat(979, 10)) => ret.val
                     /\ (entry = R(100) /\ price = Rat(985, 10)) => ~ret.val
                     /\ (entry = R(100) /\ price = R(98)) => ret.val
            ELSE ret.val = FALSE

\* C26 witness: the stop-loss answered true for a position entered at 100
\* and a price of 98, a loss of exactly 2%.
C26_Witness ==
    /\ ret.op = "check_stop_loss"
    /\ SYMBOL \in DOMAIN risk_manager.open_positions
    /\ risk_manager.open_positions[SYMBOL].entry_price = R(100)
    /\ ret.args[2] = R(98)
    /\ ret.val = TRUE

(***************************************************************************)
(* Properties of Portfolio, checked under SpecPortfolio and SpecLedger.    *)
(***************************************************************************)

\* C3: Portfolio.add_position for a symbol that already has an open position
\* fails and leaves that position (side, entry_price, quantity, timestamp)
\* as it was; a position is recorded only for a symbol that is flat.
C3_PortfolioAddRejectsOpenSymbol ==
    [][(ret'.op = "pf_add_position"
          /\ ret'.args[1] \in DOMAIN portfolio.open_positions)
          => portfolio'.open_positions[ret'.args[1]]
                = portfolio.open_positions[ret'.args[1]]]_vars

\* C5: close_position called twice in a row for one symbol, with no
\* add_position in between: the second call returns None, raises nothing and
\* leaves trade_history and open_positions as they were, so that the two
\* calls append one Trade at most.
C5_CloseTwiceRecordsOnce ==
    [][(/\ ret.op = "pf_close_position"
        /\ ret'.op = "pf_close_position"
        /\ ret'.args[1] = ret.args[1])
          => /\ ret'.val = None
             /\ ~ret'.raised
             /\ portfolio' = portfolio]_vars

\* The P&L the specification gives a position closed at a price:
\* (exit - entry) * qty for a long one, (entry - exit) * qty for a short one.
ExpectedPnl(position, price) ==
    IF position.side = "buy"
    THEN RMul(RSub(price, position.entry_price), position.quantity)
    ELSE RMul(RSub(position.entry_price, price), position.quantity)

\* The close_position part of C36, for one step.
ClosePositionRealizes ==
    (ret'.op = "pf_close_position"
        /\ ret'.args[1] \in DOMAIN portfolio.open_positions)
      => LET symbol   == ret'.args[1]
             position == portfolio.open_positions[symbol]
             trades   == portfolio'.trade_history
         IN  /\ ~ret'.raised
             /\ ret'.val = ExpectedPnl(position, ret'.args[2])
             /\ Len(trades) = Len(portfolio.trade_history) + 1
             /\ trades[Len(trades)].symbol = symbol
             /\ trades[Len(trades)].pnl = ret'.val
             /\ symbol \notin DOMAIN portfolio'.open_positions

\* The calculate_unrealized_pnl part of C36, for one step: the entries are
\* those of the open symbols that have a price, and each holds the pnl and
\* pnl_percent of the Trade that close_position(symbol, price) records.
UnrealizedMatchesClose ==
    ret'.op = "pf_calculate_unrealized_pnl"
      => LET current_prices == ret'.args[1]
         IN  /\ DOMAIN ret'.val
                   = DOMAIN portfolio.open_positions \cap DOMAIN current_prices
             /\ \A s \in DOMAIN ret'.val :
                   LET closed == PF_close_position(portfolio, s,
                                     current_prices[s], today, th_file, "ok")
                       trade  == closed.pf.trade_history[
                                     Len(closed.pf.trade_history)]
                   IN  /\ ret'.val[s].pnl = closed.val
                       /\ ret'.val[s].pnl = trade.pnl
                       /\ ret'.val[s].pnl_percent = trade.pnl_percent
                       /\ ret'.val[s].pnl
                             = ExpectedPnl(portfolio.open_positions[s],
                                           current_prices[s])

\* C36: close_position on an open symbol returns and records
\* (exit - entry) * qty for a long position and (entry - exit) * qty for a
\* short one, and removes the symbol from open_positions;
\* calculate_unrealized_pnl reports for each open symbol with a price the
\* pnl and pnl_percent that close_position at that price would realize, and
\* skips open symbols missing from the price map.
C36_PnlBySide ==
    [][ClosePositionRealizes /\ UnrealizedMatchesClose]_vars

\* What does hold of the two methods: C36 for every close_position that is
\* not stopped by the directory step of _save_trade_history, and for every
\* calculate_unrealized_pnl.
PnlBySideUnlessRaised ==
    [][/\ disk # "mkdir_error" => ClosePositionRealizes
       /\ UnrealizedMatchesClose]_vars

\* Both sides are exercised: a short position has been closed at a loss
\* after a long one was closed at a gain.
ClosedLongAndShort ==
    /\ ret.op = "pf_close_position"
    /\ ~ret.raised
    /\ Len(portfolio.trade_history) = 2
    /\ portfolio.trade_history[1].side = "buy"
    /\ portfolio.trade_history[1].pnl = R(10)
    /\ portfolio.trade_history[2].side = "sell"
    /\ portfolio.trade_history[2].pnl = R(40)
    /\ ret.val = R(40)

\* C37: trade_history is append-only.  Over add_position, close_position,
\* calculate_unrealized_pnl, calculate_realized_pnl and
\* get_portfolio_summary, the Trades recorded keep their places and their
\* fields, the length never decreases, and it grows, by exactly one, only
\* in a close_position of a symbol that is open.
C37_TradeHistoryAppendOnly ==
    [][ret'.op \in {"pf_add_position", "pf_close_position",
                    "pf_calculate_unrealized_pnl",
                    "pf_calculate_realized_pnl", "pf_get_portfolio_summary"}
         => LET before == portfolio.trade_history
                after  == portfolio'.trade_history
            IN  /\ Len(after) >= Len(before)
                /\ SubSeq(after, 1, Len(before)) = before
                /\ IF /\ ret'.op = "pf_close_position"
                      /\ ret'.args[1] \in DOMAIN portfolio.open_positions
                   THEN Len(after) = Len(before) + 1
                   ELSE after = before]_vars

\* C37 witness: with one Trade in the ledger and a position open, a
\* get_portfolio_summary call has counted the Trade.
C37_Witness ==
    /\ ret.op = "pf_get_portfolio_summary"
    /\ Len(portfolio.trade_history) = 1
    /\ ret.val.total_trades = 1
    /\ ret.val.realized_pnl = portfolio.trade_history[1].pnl
    /\ ret.val.open_positions = 1
    /\ ret.val.unrealized_pnl # Zero

(***************************************************************************)
(* advanced_strategy.analyze_advanced_strategy, as the backtest calls it:  *)
(* the five indicator checks are inputs, each casting a vote; the          *)
(* confidence arithmetic and the decision rule are the code's.             *)
(***************************************************************************)
max_signals == 5
min_confidence == 60

\* The votes of the five checks (RSI, MACD, EMA trend, Bollinger, momentum).
\* The EMA trend check always votes; the others may abstain.
VoteChoices ==
    {v \in [1..max_signals -> {"buy", "sell", "none"}] : v[3] # "none"}

\* A variant of the vote count in which a vote weighs two.
CountVotes_double(votes, side) ==
    2 * Cardinality({k \in DOMAIN votes : votes[k] = side})

CountVotes(votes, side) == Cardinality({k \in DOMAIN votes : votes[k] = side})

\* A variant of the decision rule without the confidence threshold: the side
\* with more votes wins.
analyze_advanced_strategy_majority(has_nan, votes) ==
    IF has_nan THEN <<"hold", Zero>>
    ELSE
    LET buy_signals == CountVotes(votes, "buy")
        sell_signals == CountVotes(votes, "sell")
        buy_confidence == RMul(RDiv(R(buy_signals), R(max_signals)), R(100))
        sell_confidence == RMul(RDiv(R(sell_signals), R(max_signals)), R(100))
    IN  IF RGt(buy_confidence, sell_confidence)
        THEN <<"buy", buy_confidence>>
        ELSE IF RGt(sell_confidence, buy_confidence)
        THEN <<"sell", sell_confidence>>
        ELSE <<"hold", RMax(buy_confidence, sell_confidence)>>

\* Returns <<signal, confidence>>.  has_nan: a required column of the latest
\* row is NaN.
analyze_advanced_strategy(has_nan, votes) ==
    IF has_nan THEN <<"hold", Zero>>
    ELSE
    LET buy_signals == CountVotes(votes, "buy")
        sell_signals == CountVotes(votes, "sell")
        buy_confidence == RMul(RDiv(R(buy_signals), R(max_signals)), R(100))
        sell_confidence == RMul(RDiv(R(sell_signals), R(max_signals)), R(100))
    IN  IF RGe(buy_confidence, R(min_confidence))
           /\ RGt(buy_confidence, sell_confidence)
        THEN <<"buy", buy_confidence>>
        ELSE IF RGe(sell_confidence, R(min_confidence))
                /\ RGt(sell_confidence, buy_confidence)
        THEN <<"sell", sell_confidence>>
        ELSE <<"hold", RMax(buy_confidence, sell_confidence)>>

\* Every <<signal, confidence>> the strategy can return.
StrategyResults ==
    {analyze_advanced_strategy(n, v) : n \in BOOLEAN, v \in VoteChoices}

(***************************************************************************)
(* analyze_advanced_strategy on the rows it reads: the number of rows of   *)
(* the frame, its last row (latest) and the row before (previous), each a  *)
(* record of the required columns whose values are numbers or NaN.         *)
(***************************************************************************)
RSI_OVERSOLD == 30
RSI_OVERBOUGHT == 70
MinRows == 50

\* NaN, next to the rationals <<n, d>> with d > 0.
NaN == <<0, 0>>

\* Comparisons of floats: every comparison with NaN is false.
FLt(x, y) == x # NaN /\ y # NaN /\ RLt(x, y)
FGt(x, y) == x # NaN /\ y # NaN /\ RGt(x, y)
FLe(x, y) == x # NaN /\ y # NaN /\ RLe(x, y)
FGe(x, y) == x # NaN /\ y # NaN /\ RGe(x, y)

required_columns ==
    {"rsi", "macd", "macd_signal", "bb_upper", "bb_lower",
     "ema_12", "ema_26", "close"}

\* any(pd.isna(latest[col]) for col in required_columns)
AnyNaN(row) == \E col \in required_columns : row[col] = NaN

\* ((latest.close - previous.close) / previous.close) * 100
PriceChange(latest, previous) ==
    IF latest.close = NaN \/ previous.close = NaN THEN NaN
    ELSE RMul(RDiv(RSub(latest.close, previous.close), previous.close), R(100))

\* The votes of the five checks, in the order of the code.
AS_votes(latest, previous) ==
    <<IF FLt(latest.rsi, R(RSI_OVERSOLD)) THEN "buy"
      ELSE IF FGt(latest.rsi, R(RSI_OVERBOUGHT)) THEN "sell" ELSE "none",
      IF FGt(latest.macd, latest.macd_signal)
         /\ FLe(previous.macd, previous.macd_signal) THEN "buy"
      ELSE IF FLt(latest.macd, latest.macd_signal)
              /\ FGe(previous.macd, previous.macd_signal) THEN "sell"
      ELSE "none",
      IF FGt(latest.ema_12, latest.ema_26) THEN "buy" ELSE "sell",
      IF FLt(latest.close, latest.bb_lower) THEN "buy"
      ELSE IF FGt(latest.close, latest.bb_upper) THEN "sell" ELSE "none",
      IF FGt(PriceChange(latest, previous), R(1)) THEN "buy"
      ELSE IF FLt(PriceChange(latest, previous), R(-1)) THEN "sell"
      ELSE "none">>

\* The whole function on a frame of n_rows rows: <<signal, confidence>>.
AS_analyze_rows(n_rows, latest, previous) ==
    IF n_rows < MinRows THEN <<"hold", Zero>>
    ELSE analyze_advanced_strategy(AnyNaN(latest), AS_votes(latest, previous))

Row(rsi, macd_pair, ema_pair, bb_pair, close) ==
    [rsi |-> rsi, macd |-> macd_pair[1], macd_signal |-> macd_pair[2],
     ema_12 |-> ema_pair[1], ema_26 |-> ema_pair[2],
     bb_lower |-> bb_pair[1], bb_upper |-> bb_pair[2], close |-> close]

MacdPairs == {<<NaN, R(0)>>, <<R(0), NaN>>, <<R(1), R(0)>>, <<R(0), R(1)>>,
              <<R(0), R(0)>>}
EmaPairs == {<<NaN, R(1)>>, <<R(1), NaN>>, <<R(2), R(1)>>, <<R(1), R(2)>>}
BandPairs == {<<NaN, R(105)>>, <<R(95), NaN>>, <<R(95), R(105)>>}

LatestRows ==
    {Row(rsi, m, e, b, c) :
        rsi \in {NaN, R(20), R(50), R(80)}, m \in MacdPairs, e \in EmaPairs,
        b \in BandPairs, c \in {NaN, R(90), R(100), R(110)}}

PreviousRows ==
    {Row(rsi, m, <<R(1), R(1)>>, <<R(95), R(105)>>, c) :
        rsi \in {NaN, R(50)}, m \in MacdPairs,
        c \in {NaN, R(80), R(90), R(100), R(110), R(120)}}

RowCounts == {1, MinRows - 1, MinRows}

\* The frame passed to the call is drawn in the initial state.
InitStrategy ==
    /\ today = 0
    /\ disk = "ok"
    /\ rm_file = <<>>
    /\ th_file = <<>>
    /\ risk_manager = RM_init(0, <<>>)
    /\ portfolio = PF_init(<<>>)
    /\ live = LiveInit
    /\ adds = 0
    /\ bt = BT_init
    /\ \E n_rows \in RowCounts, latest \in LatestRows, previous \in PreviousRows :
          ret = Call("call", <<n_rows, latest, previous>>, FALSE, None)

AS_Analyze ==
    /\ ret.op = "call"
    /\ ret' = Call("analyze_advanced_strategy", ret.args, FALSE,
                   AS_analyze_rows(ret.args[1], ret.args[2], ret.args[3]))
    /\ UNCHANGED <<today, risk_manager, rm_file, portfolio, th_file, disk,
                   adds, live, bt>>

NextStrategy == AS_Analyze

SpecStrategy == InitStrategy /\ [][NextStrategy]_vars

(***************************************************************************)
(* Backtester.run_backtest.  bt.df holds the closes of the bars from index *)
(* Warmup on (the bars before only feed the indicators); bt.i counts the   *)
(* bars simulated, so the loop index is Warmup + bt.i and its close is     *)
(* bt.df[bt.i + 1].  A bar's timestamp is its index.                       *)
(***************************************************************************)
Warmup == 50
BacktestConfidence == 60

BTPrices == {R(90), R(100), R(110)}
BTBalances == {R(10000)}

\* A variant of the entry condition that does not look at the position.
BT_opens_any(position, signal, confidence) ==
    signal = "buy" /\ RGe(confidence, R(BacktestConfidence))

\* The entry condition.
BT_opens(position, signal, confidence) ==
    signal = "buy" /\ position = None /\ RGe(confidence, R(BacktestConfidence))

\* A variant of the P&L of a closed trade with the operands exchanged.
BT_trade_pnl_reversed(position, exit_price) ==
    RMul(RSub(position.entry_price, exit_price), position.quantity)

\* P&L of the trade closed by a sell signal.
BT_trade_pnl(position, exit_price) ==
    RMul(RSub(exit_price, position.entry_price), position.quantity)

\* A variant of the sizing that commits a tenth of the balance.
BT_quantity_tenth(balance, current_price) ==
    RDiv(RDiv(balance, R(10)), current_price)

\* The quantity bought: the whole balance at the bar's close.
BT_quantity(balance, current_price) == RDiv(balance, current_price)

\* A variant of the balance after a close that leaves the P&L out.
BT_balance_after_close_unchanged(balance, pnl) == balance

\* The balance after a close: balance += pnl.
BT_balance_after_close(balance, pnl) == RAdd(balance, pnl)

\* A variant of the recorded equity that ignores the open position.
BT_equity_balance_only(position, balance, current_price) == balance

\* The equity recorded for a bar, after the bar's trade action.
BT_equity(position, balance, current_price) ==
    IF position # None
    THEN RMul(position[1].quantity, current_price)
    ELSE balance

\* A variant of the pass in which a bar that may open a position opens and
\* closes it at once, and no position is carried from bar to bar.
BT_simulate_bar_round_trip(b, current_price, timestamp, signal, confidence) ==
    LET trade == [entry_time  |-> timestamp,
                  exit_time   |-> timestamp,
                  entry_price |-> current_price,
                  exit_price  |-> current_price,
                  quantity    |-> BT_quantity(b.balance, current_price),
                  pnl         |-> Zero,
                  pnl_percent |-> Zero]
    IN  [b EXCEPT !.trades = IF BT_opens(b.position, signal, confidence)
                             THEN Append(@, trade) ELSE @,
                  !.equity_curve =
                      Append(@, [timestamp |-> timestamp, equity |-> b.balance]),
                  !.signal = <<signal, confidence>>,
                  !.i = @ + 1]

\* One pass of the simulation loop for the bar with close current_price.
BT_simulate_bar(b, current_price, timestamp, signal, confidence) ==
    LET opened == BT_opens(b.position, signal, confidence)
        closed == ~opened /\ signal = "sell" /\ b.position # None
        quantity == BT_quantity(b.balance, current_price)
        old == b.position[1]
        pnl == BT_trade_pnl(old, current_price)
        pnl_percent == RMul(RDiv(RSub(current_price, old.entry_price),
                                 old.entry_price), R(100))
        trade == [entry_time  |-> old.entry_time,
                  exit_time   |-> timestamp,
                  entry_price |-> old.entry_price,
                  exit_price  |-> current_price,
                  quantity    |-> old.quantity,
                  pnl         |-> pnl,
                  pnl_percent |-> pnl_percent]
        position == IF opened
                    THEN <<[type        |-> "long",
                            entry_price |-> current_price,
                            quantity    |-> quantity,
                            entry_time  |-> timestamp]>>
                    ELSE IF closed THEN None ELSE b.position
        balance == IF closed THEN BT_balance_after_close(b.balance, pnl)
                             ELSE b.balance
        equity == BT_equity(position, balance, current_price)
    IN  [b EXCEPT !.position = position,
                  !.balance = balance,
                  !.trades = IF closed THEN Append(@, trade) ELSE @,
                  !.equity_curve =
                      Append(@, [timestamp |-> timestamp, equity |-> equity]),
                  !.signal = <<signal, confidence>>,
                  !.i = @ + 1]

\* A variant of the end of the run that leaves an open position alone.
BT_force_close_skipped(b) == b.balance

\* The balance after the end of the loop: an open position is closed at the
\* close of the last row.
BT_force_close(b) ==
    IF b.position # None
    THEN RAdd(b.balance,
              RMul(RSub(b.df[Len(b.df)], b.position[1].entry_price),
                   b.position[1].quantity))
    ELSE b.balance

\* The mean of a sequence of numbers (np.mean).
Mean(seq) == RDiv(SeqSum(seq), R(Len(seq)))

\* The list comprehensions of _calculate_metrics.
Pnls(trades) == [k \in 1..Len(trades) |-> trades[k].pnl]

PnlPercents(trades) == [k \in 1..Len(trades) |-> trades[k].pnl_percent]

EquityValues(equity_curve) ==
    [k \in 1..Len(equity_curve) |-> equity_curve[k].equity]

\* A variant of the drawdown loop that never moves the peak.
RECURSIVE DrawdownLoop_fixed_peak(_, _, _, _)
DrawdownLoop_fixed_peak(equity_values, k, peak, max_drawdown) ==
    IF k > Len(equity_values) THEN max_drawdown
    ELSE LET equity == equity_values[k]
             drawdown == RMul(RDiv(RSub(peak, equity), peak), R(100))
         IN  DrawdownLoop_fixed_peak(equity_values, k + 1, peak,
                                     IF RGt(drawdown, max_drawdown)
                                     THEN drawdown ELSE max_drawdown)

\* The loop over the equity values that tracks the peak and the deepest
\* drawdown, from position k on.
RECURSIVE DrawdownLoop(_, _, _, _)
DrawdownLoop(equity_values, k, peak, max_drawdown) ==
    IF k > Len(equity_values) THEN max_drawdown
    ELSE LET equity == equity_values[k]
             new_peak == IF RGt(equity, peak) THEN equity ELSE peak
             drawdown == RMul(RDiv(RSub(new_peak, equity), new_peak), R(100))
         IN  DrawdownLoop(equity_values, k + 1, new_peak,
                          IF RGt(drawdown, max_drawdown)
                          THEN drawdown ELSE max_drawdown)

\* mean/std of the trades' pnl_percent.  The quotient has a square root in
\* it, so only its sign is kept: 0 when the deviation is 0 (all returns
\* equal) or the mean is 0, else the sign of the mean.
SharpeRatio(returns) ==
    LET mean == Mean(returns)
        std_positive == \E j, k \in 1..Len(returns) : returns[j] # returns[k]
    IN  IF std_positive
        THEN IF RGt(mean, Zero) THEN 1 ELSE IF RLt(mean, Zero) THEN -1 ELSE 0
        ELSE 0

BT_calculate_metrics(trades, initial_balance, final_balance, equity_curve) ==
    IF trades = <<>>
    THEN [total_return         |-> Zero,
          total_return_percent |-> Zero,
          num_trades           |-> 0,
          winning_trades       |-> 0,
          losing_trades        |-> 0,
          win_rate             |-> Zero,
          avg_win              |-> Zero,
          avg_loss             |-> Zero,
          max_drawdown         |-> Zero,
          sharpe_ratio         |-> 0]
    ELSE
    LET total_return == RSub(final_balance, initial_balance)
        num_trades == Len(trades)
        Wins(t) == RGt(t.pnl, Zero)
        Losses(t) == RLt(t.pnl, Zero)
        winning_trades == SelectSeq(trades, Wins)
        losing_trades == SelectSeq(trades, Losses)
        equity_values == EquityValues(equity_curve)
    IN  [total_return         |-> total_return,
         total_return_percent |->
             RMul(RDiv(total_return, initial_balance), R(100)),
         num_trades           |-> num_trades,
         winning_trades       |-> Len(winning_trades),
         losing_trades        |-> Len(losing_trades),
         win_rate             |->
             RMul(RDiv(R(Len(winning_trades)), R(num_trades)), R(100)),
         avg_win              |->
             IF winning_trades # <<>>
             THEN Mean(Pnls(winning_trades)) ELSE Zero,
         avg_loss             |->
             IF losing_trades # <<>>
             THEN Mean(Pnls(losing_trades)) ELSE Zero,
         max_drawdown         |->
             DrawdownLoop(equity_values, 1, equity_values[1], Zero),
         sharpe_ratio         |-> SharpeRatio(PnlPercents(trades))]

BacktestUnchanged ==
    UNCHANGED <<today, risk_manager, rm_file, portfolio, th_file, disk, adds,
                live>>

\* run_backtest up to the loop, with enough history: the closes of the bars
\* to simulate are the run's input.
BT_Start ==
    /\ bt.pc = "idle"
    /\ \E initial_balance \in BTBalances, n \in 0..MaxBars :
          \E df \in IF n = 0 THEN {<<>>} ELSE [1..n -> BTPrices] :
             bt' = [BT_init EXCEPT !.pc = "loop",
                                   !.df = df,
                                   !.initial_balance = initial_balance,
                                   !.balance = initial_balance]
    /\ ret' = Call("run_backtest", <<>>, FALSE, None)
    /\ BacktestUnchanged

\* run_backtest with no data or fewer than Warmup rows: returns None.
BT_Insufficient ==
    /\ bt.pc = "idle"
    /\ bt' = [BT_init EXCEPT !.pc = "done"]
    /\ ret' = Call("run_backtest", <<>>, FALSE, None)
    /\ BacktestUnchanged

\* One pass of the loop.
BT_Bar ==
    /\ bt.pc = "loop"
    /\ bt.i < Len(bt.df)
    /\ \E sc \in StrategyResults :
          bt' = BT_simulate_bar(bt, bt.df[bt.i + 1], Warmup + bt.i,
                                sc[1], sc[2])
    /\ ret' = Call("bar", <<>>, FALSE, None)
    /\ BacktestUnchanged

\* The end of the run: forced close, metrics, results.
BT_Finish ==
    /\ bt.pc = "loop"
    /\ bt.i = Len(bt.df)
    /\ \E balance \in {BT_force_close(bt)} :
          bt' = [bt EXCEPT
                   !.pc = "done",
                   !.balance = balance,
                   !.result =
                      <<[metrics       |-> BT_calculate_metrics(
                                              bt.trades, bt.initial_balance,
                                              balance, bt.equity_curve),
                         trades        |-> bt.trades,
                         equity_curve  |-> bt.equity_curve,
                         final_balance |-> balance]>>]
    /\ ret' = Call("results", <<>>, FALSE, None)
    /\ BacktestUnchanged

NextBacktest == BT_Start \/ BT_Insufficient \/ BT_Bar \/ BT_Finish

SpecBacktest == Init /\ [][NextBacktest]_vars

(***************************************************************************)
(* Backtester._calculate_metrics on its own: the arguments are drawn in    *)
(* the initial state (bt.pc = "metrics_call") and the call stores the      *)
(* metrics in bt.result.  A curve is empty only together with an empty     *)
(* trades list, as in every run.                                           *)
(***************************************************************************)
MetricEquities == {R(9000), R(10000), R(11000)}

MetricCurve(equity_values) ==
    [k \in 1..Len(equity_values) |->
        [timestamp |-> Warmup + k - 1, equity |-> equity_values[k]]]

MetricCurves ==
    {<<>>} \cup {MetricCurve(v) :
                    v \in UNION {[1..n -> MetricEquities] : n \in 1..MaxBars}}

MetricTrade(entry_price, exit_price) ==
    [entry_time  |-> Warmup,
     exit_time   |-> Warmup + 1,
     entry_price |-> entry_price,
     exit_price  |-> exit_price,
     quantity    |-> R(100),
     pnl         |-> BT_trade_pnl([entry_price |-> entry_price,
                                   quantity |-> R(100)], exit_price),
     pnl_percent |-> RMul(RDiv(RSub(exit_price, entry_price), entry_price),
                          R(100))]

MetricTrades ==
    {<<>>,
     <<MetricTrade(R(100), R(110))>>,
     <<MetricTrade(R(100), R(90))>>,
     <<MetricTrade(R(100), R(110)), MetricTrade(R(110), R(100))>>}

MetricBalances == {R(10000), R(11000)}

InitMetrics ==
    /\ today = 0
    /\ disk = "ok"
    /\ rm_file = <<>>
    /\ th_file = <<>>
    /\ risk_manager = RM_init(0, <<>>)
    /\ portfolio = PF_init(<<>>)
    /\ live = LiveInit
    /\ adds = 0
    /\ ret = Call("start", <<>>, FALSE, <<>>)
    /\ \E trades \in MetricTrades, equity_curve \in MetricCurves,
          final_balance \in MetricBalances :
          /\ equity_curve = <<>> => trades = <<>>
          /\ bt = [BT_init EXCEPT !.pc = "metrics_call",
                                  !.initial_balance = R(10000),
                                  !.balance = final_balance,
                                  !.trades = trades,
                                  !.equity_curve = equity_curve]

BT_Metrics ==
    /\ bt.pc = "metrics_call"
    /\ bt' = [bt EXCEPT
                !.pc = "metrics_return",
                !.result = <<[metrics |-> BT_calculate_metrics(
                                             bt.trades, bt.initial_balance,
                                             bt.balance, bt.equity_curve)]>>]
    /\ ret' = Call("_calculate_metrics", <<>>, FALSE, None)
    /\ BacktestUnchanged

NextMetrics == BT_Metrics

SpecMetrics == InitMetrics /\ [][NextMetrics]_vars

(***************************************************************************)
(* Two backtests side by side, over two series of bars with the same       *)
(* warm-up bars (indices below Warmup).  indicators.add_all_indicators is  *)
(* modelled by what each column of a row reads: a value of a column is     *)
(* represented by the closes it is computed from, so two rows are equal    *)
(* when they are computed from equal closes.  The strategy is a function   *)
(* of the latest and the previous row: the runs get the same signal and    *)
(* confidence at a bar where these rows are equal, and any signals where   *)
(* they are not.  bt.runs holds the locals of the two runs.                *)
(***************************************************************************)
RSI_PERIOD == 14
BB_PERIOD == 20

\* A variant of the rolling window that is centred on the row.
RollingReads_centered(t, window) ==
    (t - window \div 2)..(t + window \div 2)

\* Series.rolling(window): the rows read for row t.
RollingReads(t, window) == (t - window + 1)..t

\* Series.diff(): the rows read for row t.
DiffReads(t) == {t - 1, t}

\* Series.ewm(span, adjust=False).mean(): the rows read for row t.
EwmReads(t) == 0..t

\* The closes of the rows in reads, for the series whose closes from index
\* Warmup on are df (the warm-up closes are the same for every series).
Closes(df, reads) ==
    [t \in {u \in reads : u >= Warmup /\ u < Warmup + Len(df)} |->
        df[t - Warmup + 1]]

\* Row t of the frame after add_all_indicators, computed over the whole df.
IndicatorRow(df, t) ==
    [close       |-> Closes(df, {t}),
     rsi         |-> Closes(df, UNION {DiffReads(u) :
                                          u \in RollingReads(t, RSI_PERIOD)}),
     macd        |-> Closes(df, EwmReads(t)),
     macd_signal |-> Closes(df, UNION {EwmReads(u) : u \in EwmReads(t)}),
     bb_upper    |-> Closes(df, RollingReads(t, BB_PERIOD)),
     bb_lower    |-> Closes(df, RollingReads(t, BB_PERIOD)),
     ema_12      |-> Closes(df, EwmReads(t)),
     ema_26      |-> Closes(df, EwmReads(t))]

\* What analyze_advanced_strategy reads of current_data = df.iloc[:i+1].
StrategyInput(df, i) ==
    [n_rows |-> i + 1, latest |-> IndicatorRow(df, i),
     previous |-> IndicatorRow(df, i - 1)]

PairPrices == {R(100), R(110)}

PairFrames ==
    {<<>>} \cup UNION {[1..n -> PairPrices] : n \in 1..MaxPairBars}

\* The results the strategy returns to the two runs: one buy, one sell and
\* one hold.
PairResults ==
    {sc \in StrategyResults :
        sc \in {<<"buy", R(60)>>, <<"sell", R(60)>>, <<"hold", R(40)>>}}

BT_started(df, initial_balance) ==
    [BT_init EXCEPT !.pc = "loop", !.df = df,
                    !.initial_balance = initial_balance,
                    !.balance = initial_balance]

InitPair ==
    /\ today = 0
    /\ disk = "ok"
    /\ rm_file = <<>>
    /\ th_file = <<>>
    /\ risk_manager = RM_init(0, <<>>)
    /\ portfolio = PF_init(<<>>)
    /\ live = LiveInit
    /\ adds = 0
    /\ ret = Call("start", <<>>, FALSE, <<>>)
    /\ \E df1 \in PairFrames, df2 \in PairFrames, b \in BTBalances :
          bt = [pc |-> "pair",
                runs |-> <<BT_started(df1, b), BT_started(df2, b)>>]

\* One pass of the loop in both runs, for the same bar index.
BT_PairBar ==
    /\ bt.pc = "pair"
    /\ bt.runs[1].i = bt.runs[2].i
    /\ bt.runs[1].i < Len(bt.runs[1].df)
    /\ bt.runs[2].i < Len(bt.runs[2].df)
    /\ LET i == Warmup + bt.runs[1].i
       IN  \E same \in {StrategyInput(bt.runs[1].df, i)
                           = StrategyInput(bt.runs[2].df, i)},
              sc1 \in PairResults, sc2 \in PairResults :
              /\ same => sc1 = sc2
              /\ bt' = [bt EXCEPT !.runs =
                          <<BT_simulate_bar(bt.runs[1],
                                            bt.runs[1].df[bt.runs[1].i + 1],
                                            i, sc1[1], sc1[2]),
                            BT_simulate_bar(bt.runs[2],
                                            bt.runs[2].df[bt.runs[2].i + 1],
                                            i, sc2[1], sc2[2])>>]
    /\ ret' = Call("bar", <<>>, FALSE, None)
    /\ BacktestUnchanged

NextPair == BT_PairBar

SpecPair == InitPair /\ [][NextPair]_vars

(***************************************************************************)
(* Properties of the live loop, checked under Spec.                        *)
(***************************************************************************)

\* C4: after any sequence of passes of the live loop and restarts of the
\* process, RiskManager and Portfolio each track at most one position, for
\* the configured symbol only, and whenever the symbol is open in both, the
\* two records have the same entry_price and the same quantity.
C4_ViewsAgree ==
    /\ DOMAIN risk_manager.open_positions \subseteq {SYMBOL}
    /\ DOMAIN portfolio.open_positions \subseteq {SYMBOL}
    /\ \A s \in DOMAIN risk_manager.open_positions
                  \cap DOMAIN portfolio.open_positions :
          /\ risk_manager.open_positions[s].entry_price
                = portfolio.open_positions[s].entry_price
          /\ risk_manager.open_positions[s].quantity
                = portfolio.open_positions[s].quantity

\* C4 witness: on the second day, after a trade was closed and recorded, a
\* buy pass left the symbol open in both views with a positive quantity.
C4_Witness ==
    /\ ret.op = "iteration"
    /\ ret.val # None
    /\ ret.val[1] = "buy"
    /\ today = 1
    /\ Len(portfolio.trade_history) = 1
    /\ SYMBOL \in DOMAIN risk_manager.open_positions
    /\ SYMBOL \in DOMAIN portfolio.open_positions
    /\ RGt(portfolio.open_positions[SYMBOL].quantity, Zero)

\* C27: every open position recorded by the live loop, in RiskManager and
\* in Portfolio, has entry_price > 0 and quantity > 0, whatever available
\* balance the exchange reports (0 after a failed balance fetch included).
C27_PositionsArePositive ==
    /\ \A s \in DOMAIN risk_manager.open_positions :
          /\ RGt(risk_manager.open_positions[s].entry_price, Zero)
          /\ RGt(risk_manager.open_positions[s].quantity, Zero)
    /\ \A s \in DOMAIN portfolio.open_positions :
          /\ RGt(portfolio.open_positions[s].entry_price, Zero)
          /\ RGt(portfolio.open_positions[s].quantity, Zero)

\* C30: within one calendar day the live loop opens at most
\* max_trades_per_day positions: daily_trades <= max_trades_per_day at the
\* end of every pass, over any interleaving of passes that buy, sell, hold
\* or fail, of days, and of restarts that reload the saved state.
C30_DailyTradesWithinLimit ==
    /\ risk_manager.daily_trades <= MAX_TRADES_PER_DAY
    /\ adds <= MAX_TRADES_PER_DAY
    /\ Len(rm_file) = 1 => rm_file[1].daily_trades <= MAX_TRADES_PER_DAY

\* C30 witness: on the second day the loop has used the day's trades, and a
\* pass with a buy signal has been refused.
C30_Witness ==
    /\ today = 1
    /\ risk_manager.last_reset_date = 1
    /\ risk_manager.daily_trades = MAX_TRADES_PER_DAY
    /\ adds = MAX_TRADES_PER_DAY
    /\ ret.op = "iteration"
    /\ ret.args[1] = "buy"
    /\ ret.val # None
    /\ ret.val = <<"hold", FALSE>>

\* What does hold of the recorded positions: the entry price is positive,
\* and the quantity is not negative.
PositionsAreNotNegative ==
    /\ \A s \in DOMAIN risk_manager.open_positions :
          /\ RGt(risk_manager.open_positions[s].entry_price, Zero)
          /\ RGe(risk_manager.open_positions[s].quantity, Zero)
    /\ \A s \in DOMAIN portfolio.open_positions :
          /\ RGt(portfolio.open_positions[s].entry_price, Zero)
          /\ RGe(portfolio.open_positions[s].quantity, Zero)

\* C31: between passes of the live loop, the first pass after a restart of
\* the process included, a symbol is open in RiskManager.open_positions if
\* and only if it is open in Portfolio.open_positions.  Stated for the runs
\* in which every save succeeds.
C31_SameSymbolsOpen ==
    disk = "ok" =>
        DOMAIN risk_manager.open_positions = DOMAIN portfolio.open_positions

\* What follows from a position known to RiskManager alone: a pass closed
\* it and recorded its loss in daily_loss, and no Trade was appended.
ClosedWithoutTrade ==
    /\ disk = "ok"
    /\ ret.op = "iteration"
    /\ ~ret.raised
    /\ ret.val # None
    /\ ret.val[1] = "sell"
    /\ SYMBOL \notin DOMAIN risk_manager.open_positions
    /\ RLt(risk_manager.daily_loss, Zero)
    /\ portfolio.trade_history = <<>>

\* What does hold of the two views: Portfolio's open symbols are among
\* RiskManager's.
PortfolioOpenWithinRiskManager ==
    DOMAIN portfolio.open_positions \subseteq DOMAIN risk_manager.open_positions

\* C38: the live loop never overwrites an open position.  A pass calls
\* RiskManager.add_position, and Portfolio.add_position after it, only
\* when the symbol is open in neither RiskManager.open_positions nor
\* Portfolio.open_positions, in every state reached through passes, days
\* and restarts; Portfolio's open symbols are always among RiskManager's.
C38_NeverOverwritesOpenPosition ==
    [][/\ PortfolioOpenWithinRiskManager'
       /\ (ret'.op = "iteration" /\ ret'.val # None /\ ret'.val[1] = "buy")
             => /\ SYMBOL \notin DOMAIN risk_manager.open_positions
                /\ SYMBOL \notin DOMAIN portfolio.open_positions
                /\ SYMBOL \in DOMAIN risk_manager'.open_positions
       /\ (/\ ret'.op = "iteration"
           /\ SYMBOL \in DOMAIN risk_manager.open_positions
           /\ SYMBOL \in DOMAIN risk_manager'.open_positions)
             => risk_manager'.open_positions = risk_manager.open_positions
       /\ (/\ ret'.op = "iteration"
           /\ SYMBOL \in DOMAIN portfolio.open_positions
           /\ SYMBOL \in DOMAIN portfolio'.open_positions)
             => portfolio'.open_positions = portfolio.open_positions]_vars

\* C38 witness: a pass has bought for the second time in the day, after
\* the first position was closed and recorded, and both views hold the new
\* position.
C38_Witness ==
    /\ ret.op = "iteration"
    /\ ~ret.raised
    /\ ret.val # None
    /\ ret.val = <<"buy", TRUE>>
    /\ risk_manager.daily_trades = 2
    /\ Len(portfolio.trade_history) = 1
    /\ SYMBOL \in DOMAIN risk_manager.open_positions
    /\ SYMBOL \in DOMAIN portfolio.open_positions

(***************************************************************************)
(* Properties of one pass, checked under SpecGate.                        *)
(***************************************************************************)

\* C28: closing is not gated by the risk limits.  In a pass that received
\* market data while the symbol is open in RiskManager, if the strategy's
\* signal is sell, or check_stop_loss or check_take_profit is true at the
\* current price, the position is removed from RiskManager in that pass,
\* also when can_trade returns false; a stop-loss or take-profit trigger
\* overrides a buy or hold signal.
C28_ClosingIsNotGated ==
    [][(/\ ret'.op = "iteration"
        /\ SYMBOL \in DOMAIN risk_manager.open_positions
        /\ \/ ret.args[1] = "sell"
           \/ RM_check_stop_loss(risk_manager, SYMBOL, ret.args[2])
           \/ RM_check_take_profit(risk_manager, SYMBOL, ret.args[2]))
          => /\ ret'.val[3] = "sell"
             /\ SYMBOL \notin DOMAIN risk_manager'.open_positions]_vars

\* What does hold of closing: the same, in every pass in which creating the
\* data directory does not fail.
ClosingIsNotGatedUnlessRaised ==
    [][(/\ ret'.op = "iteration"
        /\ disk # "mkdir_error"
        /\ SYMBOL \in DOMAIN risk_manager.open_positions
        /\ \/ ret.args[1] = "sell"
           \/ RM_check_stop_loss(risk_manager, SYMBOL, ret.args[2])
           \/ RM_check_take_profit(risk_manager, SYMBOL, ret.args[2]))
          => /\ ret'.val[3] = "sell"
             /\ ~ret'.raised
             /\ SYMBOL \notin DOMAIN risk_manager'.open_positions]_vars

\* A pass that closed on a stop-loss against a buy signal while the
\* emergency stop was set.
ClosedWhileStopped ==
    /\ ret.op = "iteration"
    /\ ret.args[1] = "buy"
    /\ ret.args[2] = R(97)
    /\ risk_manager.emergency_stop
    /\ ret.val = <<"sell", FALSE, "sell">>
    /\ SYMBOL \notin DOMAIN risk_manager.open_positions

\* C29: the loop opens a position (RiskManager.add_position and
\* Portfolio.add_position) only in a pass in which can_trade returned true
\* and the final signal is buy; while emergency_stop is set no position is
\* opened.
C29_OpensOnlyWhenAllowed ==
    [][(/\ ret'.op = "iteration"
        /\ \/ /\ SYMBOL \in DOMAIN risk_manager'.open_positions
              /\ SYMBOL \notin DOMAIN risk_manager.open_positions
           \/ /\ SYMBOL \in DOMAIN portfolio'.open_positions
              /\ portfolio'.open_positions # portfolio.open_positions)
          => /\ ret'.val[2] = TRUE
             /\ ret'.val[3] = "buy"
             /\ ~risk_manager.emergency_stop
             /\ ~risk_manager'.emergency_stop]_vars

\* C29 witness: a pass with a buy signal that can_trade allowed opened the
\* position in RiskManager and in Portfolio.
C29_Witness ==
    /\ ret.op = "iteration"
    /\ ret.val = <<"buy", TRUE, "buy">>
    /\ ~ret.raised
    /\ SYMBOL \in DOMAIN risk_manager.open_positions
    /\ SYMBOL \in DOMAIN portfolio.open_positions
    /\ RGt(risk_manager.open_positions[SYMBOL].quantity, Zero)

(***************************************************************************)
(* Properties of the loop's control, checked under SpecLoop and SpecLive.  *)
(***************************************************************************)

\* C24: the loop ends only after shutdown has been requested.  An exception
\* raised anywhere in a pass (fetching the data, the analysis, the risk
\* check, the bookkeeping, the portfolio summary) is caught: the loop waits
\* and then starts another pass; no failing pass ends the loop.
C24_ExceptionsDoNotEndLoop ==
    [][/\ (live.pc \notin {"shutdown", "stopped"}
           /\ live'.pc \in {"shutdown", "stopped"})
          => live.shutdown_requested
       /\ (live.pc \in {"try", "summary"} /\ live'.pc # live.pc /\ ret'.raised)
          => live'.pc = "sleep"
       /\ (live.pc = "sleep" /\ live'.pc # live.pc)
          => live'.pc = "while"
       /\ (live.pc = "while" /\ live'.pc # live.pc /\ ~live.shutdown_requested)
          => live'.pc = "try"]_vars

\* C24 witness: a pass raised in its bookkeeping (add_position could not
\* save), and the loop has come round to its next pass.
C24_Witness ==
    /\ live.pc = "try"
    /\ ~live.shutdown_requested
    /\ ret.op = "iteration"
    /\ ret.raised
    /\ ret.val # None
    /\ ret.val[1] = "buy"

\* C25: shutdown is cooperative.  A request that arrives during a pass
\* changes the flag and nothing else, and the pass in flight completes its
\* bookkeeping in RiskManager and in Portfolio; the flag is tested at the
\* top of the loop and at each one-second step of the wait, so that no pass
\* starts after a request; and after a request the loop eventually ends and
\* the trade history is exported.
C25_CooperativeShutdown ==
    /\ [][
         /\ (~live.shutdown_requested /\ live'.shutdown_requested)
            => /\ live'.pc = live.pc
               /\ UNCHANGED <<risk_manager, rm_file, portfolio, th_file, ret>>
         /\ (/\ live.pc = "try"
             /\ live.shutdown_requested
             /\ live'.pc = "summary")
            => /\ (ret'.val[1] = "buy")
                  => (/\ SYMBOL \in DOMAIN risk_manager'.open_positions
                      /\ SYMBOL \in DOMAIN portfolio'.open_positions)
               /\ (ret'.val[1] = "sell")
                  => (/\ SYMBOL \notin DOMAIN risk_manager'.open_positions
                      /\ SYMBOL \notin DOMAIN portfolio'.open_positions)
         /\ (live.shutdown_requested /\ live'.pc = "try")
            => live.pc = "try"
         /\ (live.pc = "wait" /\ live.shutdown_requested /\ live' # live)
            => live'.pc = "while"
       ]_vars
    /\ (live.shutdown_requested
          ~> (live.pc = "stopped" /\ ret.op = "export_trade_history_csv"))

\* C25 witness: the signal arrived while a pass was in flight, and that pass
\* has bought: the position is in RiskManager and in Portfolio.
C25_Witness ==
    /\ live.pc = "summary"
    /\ live.requested_at = "try"
    /\ ret.op = "iteration"
    /\ ret.val # None
    /\ ret.val[1] = "buy"
    /\ SYMBOL \in DOMAIN risk_manager.open_positions
    /\ SYMBOL \in DOMAIN portfolio.open_positions

(***************************************************************************)
(* Properties of the backtest, checked under SpecBacktest.                 *)
(***************************************************************************)

\* C8: at each simulated bar (index >= 50) a position is opened if and only
\* if the bar's signal is buy, no position is open and the confidence is at
\* least 60; the opened position is long, entered at the bar's close with
\* quantity balance / close.  Hence at most one position is open at any
\* step: a bar never replaces an open position by another.
C8_OpensIffBuyFlatConfident ==
    [][(bt.pc = "loop" /\ bt'.pc = "loop")
          => LET close == bt.df[bt.i + 1]
                 opened == bt'.position # None /\ bt'.position # bt.position
             IN  /\ Warmup + bt.i >= 50
                 /\ opened <=> /\ bt'.signal[1] = "buy"
                               /\ bt.position = None
                               /\ RGe(bt'.signal[2], R(60))
                 /\ opened => /\ bt'.position[1].type = "long"
                              /\ bt'.position[1].entry_price = close
                              /\ bt'.position[1].quantity
                                    = RDiv(bt.balance, close)
                 /\ Len(bt'.position) <= 1]_vars

\* C8 witness: a bar with a buy signal opened a position after an earlier
\* trade had changed the balance.
C8_Witness ==
    /\ bt.pc = "loop"
    /\ bt.signal # None
    /\ bt.signal[1] = "buy"
    /\ bt.position # None
    /\ bt.position[1].entry_time = Warmup + bt.i - 1
    /\ bt.trades # <<>>
    /\ bt.balance # bt.initial_balance

\* C9: at a bar whose signal is sell while a position is open, the position
\* is closed at the bar's close: pnl = (exit - entry) * quantity is added to
\* the balance, exactly one trade with that pnl, the entry and exit prices
\* and times is appended, and the position becomes empty; a sell signal
\* while flat changes neither balance, trades nor position.
C9_SellClosesPosition ==
    [][(bt.pc = "loop" /\ bt'.pc = "loop" /\ bt'.signal[1] = "sell")
          => LET close == bt.df[bt.i + 1]
             IN  IF bt.position # None
                 THEN LET p == bt.position[1]
                          pnl == RMul(RSub(close, p.entry_price), p.quantity)
                          t == bt'.trades[Len(bt'.trades)]
                      IN  /\ bt'.balance = RAdd(bt.balance, pnl)
                          /\ Len(bt'.trades) = Len(bt.trades) + 1
                          /\ SubSeq(bt'.trades, 1, Len(bt.trades)) = bt.trades
                          /\ t.pnl = pnl
                          /\ t.entry_price = p.entry_price
                          /\ t.exit_price = close
                          /\ t.entry_time = p.entry_time
                          /\ t.exit_time = Warmup + bt.i
                          /\ bt'.position = None
                 ELSE /\ bt'.balance = bt.balance
                      /\ bt'.trades = bt.trades
                      /\ bt'.position = None]_vars

\* C9 witness: the bar just simulated had a sell signal and closed a
\* position at a price other than its entry price.
C9_Witness ==
    /\ bt.pc = "loop"
    /\ bt.signal # None
    /\ bt.signal[1] = "sell"
    /\ bt.trades # <<>>
    /\ bt.trades[Len(bt.trades)].exit_time = Warmup + bt.i - 1
    /\ bt.trades[Len(bt.trades)].pnl # Zero
    /\ bt.position = None

\* C10: when a position is still open after the last simulated bar, the run
\* closes it at the last bar's close: final_balance is the balance plus
\* (lastClose - entry) * quantity, and the returned trades are the trades as
\* they were before the forced close.
C10_ForcedCloseFoldsPnl ==
    [][(bt.pc = "loop" /\ bt'.pc = "done" /\ bt.position # None)
          => LET p == bt.position[1]
                 lastClose == bt.df[Len(bt.df)]
             IN  /\ bt'.result # None
                 /\ bt'.result[1].final_balance
                       = RAdd(bt.balance,
                              RMul(RSub(lastClose, p.entry_price), p.quantity))
                 /\ bt'.result[1].trades = bt.trades]_vars

\* C10 witness: a finished run whose position was still open at the end,
\* entered at a price other than the last close, after an earlier trade.
C10_Witness ==
    /\ bt.pc = "done"
    /\ bt.result # None
    /\ bt.position # None
    /\ bt.position[1].entry_price # bt.df[Len(bt.df)]
    /\ bt.result[1].trades # <<>>
    /\ bt.result[1].final_balance # bt.initial_balance

\* C11: for every run that returns a result, metrics.total_return is
\* final_balance - initial_balance and metrics.total_return_percent is
\* total_return / initial_balance * 100, final_balance being the field of
\* the same result; also for runs whose only position is closed by the
\* forced close at the end.
C11_TotalReturnMatchesFinalBalance ==
    (bt.pc = "done" /\ bt.result # None)
       => LET res == bt.result[1]
              total_return == RSub(res.final_balance, bt.initial_balance)
          IN  /\ res.metrics.total_return = total_return
              /\ res.metrics.total_return_percent
                    = RMul(RDiv(total_return, bt.initial_balance), R(100))

\* C12: the run appends exactly one equity point per simulated bar, in bar
\* order, so that the curve has as many points as bars were simulated and
\* the returned curve has len(bars) - 50 points; the point is recorded after
\* the bar's trade action: its equity is the balance when no position is
\* open after the action, and quantity * close when one is.
C12_OneEquityPointPerBar ==
    [][/\ (bt.pc = "loop" /\ bt'.pc = "loop")
          => LET close == bt.df[bt.i + 1]
                 point == bt'.equity_curve[Len(bt'.equity_curve)]
             IN  /\ Len(bt'.equity_curve) = Len(bt.equity_curve) + 1
                 /\ SubSeq(bt'.equity_curve, 1, Len(bt.equity_curve))
                       = bt.equity_curve
                 /\ Len(bt'.equity_curve) = bt'.i
                 /\ point.timestamp = Warmup + bt.i
                 /\ point.equity
                       = IF bt'.position = None
                         THEN bt'.balance
                         ELSE RMul(bt'.position[1].quantity, close)
       /\ (bt.pc = "loop" /\ bt'.pc = "done")
          => /\ bt'.result[1].equity_curve = bt.equity_curve
             /\ Len(bt'.result[1].equity_curve) = Len(bt.df)]_vars

\* C12 witness: a finished run of several bars whose curve holds, in order,
\* a point taken while a position was open at a close other than its entry
\* price (equity differs from the balance) and a later point taken flat.
C12_Witness ==
    /\ bt.pc = "done"
    /\ bt.result # None
    /\ Len(bt.result[1].equity_curve) = Len(bt.df)
    /\ Len(bt.df) >= 3
    /\ bt.result[1].equity_curve[2].equity # bt.initial_balance
    /\ bt.position = None
    /\ bt.trades # <<>>
    /\ bt.trades[1].entry_time = Warmup
    /\ bt.trades[1].exit_time = Warmup + 2

\* C32: the accounting of the simulation.  After every simulated bar the
\* balance is initial_balance plus the sum of the pnl of the Trades recorded
\* so far; a bar that opens a position leaves the balance and the trade list
\* as they were; and the balance changes only on a bar that closes a
\* position on a sell signal, appending one Trade, or at the forced close
\* at the end of the run.
C32_BalanceFollowsTrades ==
    [][bt.pc = "loop" =>
         /\ bt'.pc = "loop" =>
               bt'.balance = RAdd(bt'.initial_balance, SeqSum(Pnls(bt'.trades)))
         /\ (bt'.pc = "loop" /\ bt.position = None /\ bt'.position # None) =>
               /\ bt'.balance = bt.balance
               /\ bt'.trades = bt.trades
         /\ bt'.balance # bt.balance =>
               \/ /\ bt'.pc = "loop"
                  /\ bt'.signal[1] = "sell"
                  /\ bt.position # None
                  /\ bt'.position = None
                  /\ Len(bt'.trades) = Len(bt.trades) + 1
                  /\ bt'.balance
                        = RAdd(bt.balance, bt'.trades[Len(bt'.trades)].pnl)
               \/ /\ bt'.pc = "done"
                  /\ bt.position # None
                  /\ bt'.trades = bt.trades]_vars

\* C32 witness: in the loop, after a trade closed with a pnl other than 0,
\* a later bar has opened a new position, the balance being the initial
\* balance plus that pnl.
C32_Witness ==
    /\ bt.pc = "loop"
    /\ Len(bt.trades) = 1
    /\ bt.trades[1].pnl # Zero
    /\ bt.position # None
    /\ bt.balance # bt.initial_balance
    /\ bt.balance = RAdd(bt.initial_balance, bt.trades[1].pnl)

\* C39: the trades of a backtest are strictly ordered and do not overlap.
\* Every recorded Trade has entry_time < exit_time, and of two consecutive
\* Trades the first exits strictly before the second enters: a bar that
\* opens a position records no Trade, and a bar that closes one leaves the
\* simulation flat.
C39_TradesOrdered ==
    [][bt'.pc \in {"loop", "done"} =>
         LET trades == bt'.trades
         IN  /\ \A k \in 1..Len(trades) :
                   trades[k].entry_time < trades[k].exit_time
             /\ \A k \in 1..(Len(trades) - 1) :
                   trades[k].exit_time < trades[k + 1].entry_time
             /\ (bt.pc = "loop" /\ bt.position = None) => trades = bt.trades
             /\ (bt.pc = "loop" /\ trades # bt.trades) => bt'.position = None
             /\ (bt'.pc = "done" /\ bt'.result # None)
                   => bt'.result[1].trades = trades]_vars

\* C39 witness: a finished run recorded two trades, the second entered on
\* the bar after the one that closed the first.
C39_Witness ==
    /\ bt.pc = "done"
    /\ bt.result # None
    /\ Len(bt.result[1].trades) = 2
    /\ bt.result[1].trades[1].entry_time = Warmup
    /\ bt.result[1].trades[1].exit_time = Warmup + 1
    /\ bt.result[1].trades[2].entry_time = Warmup + 2
    /\ bt.result[1].trades[2].exit_time = Warmup + 3

\* The running maximum of the equity up to and including point t.
C13_Peak(equity_values, t) ==
    CHOOSE p \in {equity_values[k] : k \in 1..t} :
        \A k \in 1..t : RGe(p, equity_values[k])

\* The drawdown at point t, in percent of the running peak.
C13_Drawdown(equity_values, t) ==
    RMul(RDiv(RSub(C13_Peak(equity_values, t), equity_values[t]),
              C13_Peak(equity_values, t)), R(100))

\* The largest drawdown over the curve (0 for an empty curve).
C13_MaxDrawdown(equity_values) ==
    IF equity_values = <<>> THEN Zero
    ELSE CHOOSE d \in {C13_Drawdown(equity_values, t) :
                          t \in 1..Len(equity_values)} :
            \A t \in 1..Len(equity_values) :
                RGe(d, C13_Drawdown(equity_values, t))

\* C13: for every result of a run, metrics.max_drawdown is the maximum over
\* the equity curve, in chronological order, of (peak_t - equity_t) / peak_t
\* * 100, peak_t being the running maximum of the equity up to and including
\* t; whatever the number of recorded trades.
C13_MaxDrawdownOfCurve ==
    (bt.pc = "done" /\ bt.result # None)
       => bt.result[1].metrics.max_drawdown
             = C13_MaxDrawdown(EquityValues(bt.result[1].equity_curve))

\* C15: a run whose only executed actions are one buy at price p with
\* balance B and, later, one sell at price q yields exactly one trade, with
\* pnl = (q - p) * B / p, final_balance = B * q / p, and win_rate = 100
\* when q > p.
C15_AllInRoundTrip ==
    (/\ bt.pc = "done" /\ bt.result # None
     /\ Len(bt.result[1].trades) = 1 /\ bt.position = None)
       => LET res == bt.result[1]
              B == bt.initial_balance
              p == res.trades[1].entry_price
              q == res.trades[1].exit_price
          IN  /\ res.trades[1].pnl = RDiv(RMul(RSub(q, p), B), p)
              /\ res.final_balance = RDiv(RMul(B, q), p)
              /\ res.metrics.num_trades = 1
              /\ RGt(q, p) => res.metrics.win_rate = R(100)

\* C15 witness: the run of the example, a buy at 100 with 10000 and a sell
\* at 110 some bars later: pnl 1000, final balance 11000, win rate 100.
C15_Witness ==
    /\ bt.pc = "done"
    /\ bt.result # None
    /\ bt.position = None
    /\ Len(bt.result[1].trades) = 1
    /\ bt.initial_balance = R(10000)
    /\ bt.result[1].trades[1].entry_price = R(100)
    /\ bt.result[1].trades[1].exit_price = R(110)
    /\ bt.result[1].trades[1].exit_time > bt.result[1].trades[1].entry_time + 1
    /\ bt.result[1].trades[1].pnl = R(1000)
    /\ bt.result[1].final_balance = R(11000)
    /\ bt.result[1].metrics.win_rate = R(100)

(***************************************************************************)
(* Properties of _calculate_metrics, checked under SpecMetrics.            *)
(***************************************************************************)

\* The curve never falls from one point to the next.
C14_NonDecreasing(c, from, to) ==
    \A k \in from..(to - 1) : RLe(c[k], c[k + 1])

\* The curve rises (or stays) up to position p, falls to a lower value at
\* position t and never falls again after t.
C14_SingleDip(c, p, t) ==
    /\ p < t
    /\ C14_NonDecreasing(c, 1, p)
    /\ \A k \in p..(t - 1) : RGe(c[k], c[k + 1])
    /\ RLt(c[t], c[p])
    /\ C14_NonDecreasing(c, t, Len(c))

\* C14: for every equity curve that never decreases, with any trades list,
\* _calculate_metrics returns max_drawdown 0; for a curve that rises to one
\* peak P, dips once to a trough T and then recovers with no further dip,
\* with at least one trade recorded, it returns (P - T) / P * 100.
C14_DrawdownOfSimpleCurves ==
    bt.pc = "metrics_return"
       => LET c == EquityValues(bt.equity_curve)
              max_drawdown == bt.result[1].metrics.max_drawdown
          IN  /\ C14_NonDecreasing(c, 1, Len(c)) => max_drawdown = Zero
              /\ \A p, t \in 1..Len(c) :
                    (C14_SingleDip(c, p, t) /\ bt.trades # <<>>)
                       => max_drawdown
                             = RMul(RDiv(RSub(c[p], c[t]), c[p]), R(100))

\* C14 witness: metrics were computed, with a trade recorded, for a curve
\* that starts below its peak, dips under its first value and recovers.
C14_Witness ==
    /\ bt.pc = "metrics_return"
    /\ bt.trades # <<>>
    /\ EquityValues(bt.equity_curve)
          = <<R(10000), R(11000), R(9000), R(10000)>>
    /\ bt.result[1].metrics.max_drawdown = Rat(200, 11)

(***************************************************************************)
(* Properties of analyze_advanced_strategy, checked under SpecStrategy.    *)
(***************************************************************************)

\* The number of the five checks that voted for a side.
VotesFor(latest, previous, side) ==
    Cardinality({k \in 1..5 : AS_votes(latest, previous)[k] = side})

\* C17: for every combination of votes of the five checks, the function
\* returns buy iff buy_confidence >= 60 and buy_confidence > sell_confidence,
\* sell iff sell_confidence >= 60 and sell_confidence > buy_confidence, and
\* otherwise hold with confidence max(buy_confidence, sell_confidence), each
\* confidence being 100 * count / 5.
C17_DecisionRule ==
    (/\ ret.op = "analyze_advanced_strategy"
     /\ ret.args[1] >= MinRows
     /\ ~AnyNaN(ret.args[2]))
       => LET buy_confidence ==
                  Rat(100 * VotesFor(ret.args[2], ret.args[3], "buy"), 5)
              sell_confidence ==
                  Rat(100 * VotesFor(ret.args[2], ret.args[3], "sell"), 5)
              buy == /\ RGe(buy_confidence, R(60))
                     /\ RGt(buy_confidence, sell_confidence)
              sell == /\ RGe(sell_confidence, R(60))
                      /\ RGt(sell_confidence, buy_confidence)
          IN  /\ ret.val[1] = "buy" <=> buy
              /\ ret.val[1] = "sell" <=> sell
              /\ (~buy /\ ~sell)
                    => ret.val = <<"hold", RMax(buy_confidence, sell_confidence)>>

\* C17 witness: two checks voted buy and two voted sell, and the function
\* returned hold with confidence 40.
C17_Witness ==
    /\ ret.op = "analyze_advanced_strategy"
    /\ ret.args[1] >= MinRows
    /\ ~AnyNaN(ret.args[2])
    /\ VotesFor(ret.args[2], ret.args[3], "buy") = 2
    /\ VotesFor(ret.args[2], ret.args[3], "sell") = 2
    /\ ret.val = <<"hold", R(40)>>

\* C18: the function returns hold with confidence 0 whenever the history
\* has fewer than 2 rows or one of the required columns is undefined in the
\* latest or in the previous row; it casts votes only when all are defined.
C18_UndefinedFieldsHold ==
    (/\ ret.op = "analyze_advanced_strategy"
     /\ \/ ret.args[1] < 2
        \/ AnyNaN(ret.args[2])
        \/ AnyNaN(ret.args[3]))
       => ret.val = <<"hold", Zero>>

\* C19: in every evaluation each of the five checks votes buy, sell or not
\* at all, never for both sides, so buy_signals + sell_signals <= 5; the
\* confidence returned is one of 0, 20, 40, 60, 80, 100 and the signal is
\* one of buy, sell, hold.
C19_VotesAndConfidenceBounded ==
    ret.op = "analyze_advanced_strategy"
       => /\ ret.val[1] \in {"buy", "sell", "hold"}
          /\ ret.val[2] \in {R(0), R(20), R(40), R(60), R(80), R(100)}
          /\ (ret.args[1] >= MinRows /\ ~AnyNaN(ret.args[2]))
                => LET votes == AS_votes(ret.args[2], ret.args[3])
                   IN  /\ DOMAIN votes = 1..5
                       /\ \A k \in 1..5 : votes[k] \in {"buy", "sell", "none"}
                       /\ VotesFor(ret.args[2], ret.args[3], "buy")
                             + VotesFor(ret.args[2], ret.args[3], "sell") <= 5

\* C19 witness: all five checks voted buy and the function returned buy
\* with confidence 100.
C19_Witness ==
    /\ ret.op = "analyze_advanced_strategy"
    /\ ret.args[1] >= MinRows
    /\ ~AnyNaN(ret.args[2])
    /\ VotesFor(ret.args[2], ret.args[3], "buy") = 5
    /\ ret.val = <<"buy", R(100)>>

(***************************************************************************)
(* Property of two backtests side by side, checked under SpecPair.         *)
(***************************************************************************)

\* C16: no look-ahead.  For two series of bars that agree up to bar i
\* (i >= 50) and differ in any way after it, the backtest computes the same
\* signal and confidence at step i and has the same balance, position,
\* trades and equity curve after step i, although the indicators are
\* computed once over each whole series before the loop.
C16_NoLookAhead ==
    [][(/\ bt.pc = "pair" /\ bt'.pc = "pair"
        /\ bt'.runs[1].i = bt.runs[1].i + 1
        /\ SubSeq(bt.runs[1].df, 1, bt'.runs[1].i)
              = SubSeq(bt.runs[2].df, 1, bt'.runs[2].i))
          => /\ Warmup + bt.runs[1].i >= 50
             /\ bt'.runs[1].signal = bt'.runs[2].signal
             /\ bt'.runs[1].balance = bt'.runs[2].balance
             /\ bt'.runs[1].position = bt'.runs[2].position
             /\ bt'.runs[1].trades = bt'.runs[2].trades
             /\ bt'.runs[1].equity_curve = bt'.runs[2].equity_curve]_vars

\* C16 witness: two runs over series that agree on their first two bars and
\* differ in the third have simulated the two bars, bought and sold, and
\* hold the same trade.
C16_Witness ==
    /\ bt.pc = "pair"
    /\ bt.runs[1].i = 2
    /\ Len(bt.runs[1].df) = 3
    /\ Len(bt.runs[2].df) = 3
    /\ SubSeq(bt.runs[1].df, 1, 2) = SubSeq(bt.runs[2].df, 1, 2)
    /\ bt.runs[1].df[3] # bt.runs[2].df[3]
    /\ bt.runs[1].trades # <<>>
    /\ bt.runs[1].trades = bt.runs[2].trades
    /\ bt.runs[1].signal = bt.runs[2].signal

====
